---- MODULE Spec2Model ----
(***************************************************************************)
(* A model of the ASTERIX codec of src/src/Codec.cpp and of the bit stream *)
(* of src/include/ASTERIXCodec/BitStream.hpp.                              *)
(*                                                                         *)
(* Conventions.                                                            *)
(*   - A byte buffer (std::span, std::vector<uint8_t>) is a sequence of    *)
(*     numbers in 0..255; C++ index i is TLA+ index i+1.                   *)
(*   - A std::map is a function whose DOMAIN is the set of keys, except    *)
(*     CategoryDef::items, which is the sequence of its entries in key     *)
(*     order (the order the mandatory-item loop iterates in).              *)
(*   - A std::string built by concatenation is the sequence of its parts;  *)
(*     the empty string is << >>.                                          *)
(*   - A C++ exception is a value [type, what]; NoExc is "nothing thrown". *)
(*     An operator that models code which can throw returns a record with  *)
(*     an exc field, and the code after a throw is not executed.           *)
(*   - Message texts are the source's, with its non-ASCII characters       *)
(*     written in ASCII ("1-64", ">=3", " - ").                            *)
(***************************************************************************)
EXTENDS Integers, Sequences, FiniteSets, TLC

\* ------------------------------------------------------------------------
\*  Exceptions and small helpers
\* ------------------------------------------------------------------------

NoExc == [type |-> "", what |-> << >>]

Throw(type, what) == [type |-> type, what |-> what]

EmptyMap == [k \in {} |-> 0]

MapPut(m, k, v) == [x \in (DOMAIN m) \cup {k} |-> IF x = k THEN v ELSE m[x]]

\* (byte >> shift) & 1
BitAt(byte, shift) == (byte \div (2 ^ shift)) % 2

\* byte | (1 << bit)
OrBit(byte, bit) == IF BitAt(byte, bit) = 1 THEN byte ELSE byte + (2 ^ bit)

Min(a, b) == IF a < b THEN a ELSE b

\* ------------------------------------------------------------------------
\*  uint64_t
\* ------------------------------------------------------------------------
\* A uint64_t that the bit stream reads or writes is four 16-bit limbs, the
\* most significant first, so that all 64 bits are kept. U64 and Num
\* convert from and to a number; the numbers the codec stores in a field
\* are below 2^16 in every schema below.

U64(n) == <<0, 0, n \div 65536, n % 65536>>

Num(w) == w[3] * 65536 + w[4]

\* (w << chunk) | bits in an accumulator of 32 bits.
ShlOr32(w, chunk, bits) ==
    [i \in 1..4 |-> IF i < 3 THEN 0
                    ELSE ((w[i] * (2 ^ chunk)) % 65536)
                         + (IF i < 4 THEN w[i + 1] \div (2 ^ (16 - chunk)) ELSE bits)]

\* (w << chunk) | bits, for 1 <= chunk <= 8 and bits < 2^chunk; the bits
\* shifted out at the top are lost.
ShlOr(w, chunk, bits) ==
    [i \in 1..4 |-> ((w[i] * (2 ^ chunk)) % 65536)
                    + (IF i < 4 THEN w[i + 1] \div (2 ^ (16 - chunk)) ELSE bits)]

\* (w >> shift) & ((1 << chunk) - 1), for chunk <= 8 and shift + chunk <= 64
ShrAnd(w, shift, chunk) ==
    LET i    == 4 - (shift \div 16)
        o    == shift % 16
        low  == w[i] \div (2 ^ o)
    IN  IF o + chunk <= 16 THEN low % (2 ^ chunk)
        ELSE low + (w[i - 1] % (2 ^ (o + chunk - 16))) * (2 ^ (16 - o))

\* w & ((1 << n) - 1), for n < 64
MaskLow(w, n) ==
    [i \in 1..4 |-> LET lo == 16 * (4 - i)
                    IN  IF lo + 16 <= n THEN w[i]
                        ELSE IF lo >= n THEN 0
                        ELSE w[i] % (2 ^ (n - lo))]

\* ------------------------------------------------------------------------
\*  BitReader
\* ------------------------------------------------------------------------

\* BitReader{buf}: position 0; exc records an exception thrown by a read.
BitReader(buf) == [buf |-> buf, pos |-> 0, exc |-> NoExc]

bitsAvailable(br) == Len(br.buf) * 8 - br.pos

canRead(br, n) == bitsAvailable(br) >= n

\* A boundsCheck without the upper limit on the bit count.
boundsCheckNoLimit(br, n) ==
    IF n = 0
    THEN Throw("invalid_argument", <<"BitReader: bit count must be 1-64">>)
    ELSE IF ~canRead(br, n)
         THEN Throw("out_of_range", <<"BitReader: read past end of buffer">>)
         ELSE NoExc

boundsCheck(br, n) ==
    IF n = 0 \/ n > 64
    THEN Throw("invalid_argument", <<"BitReader: bit count must be 1-64">>)
    ELSE IF ~canRead(br, n)
         THEN Throw("out_of_range", <<"BitReader: read past end of buffer">>)
         ELSE NoExc

RECURSIVE readULoop(_, _, _)
readULoop(br, left, result) ==
    IF left = 0 THEN [br |-> br, val |-> result]
    ELSE LET byte_idx    == br.pos \div 8
             bit_in_byte == br.pos % 8
             avail       == 8 - bit_in_byte
             chunk       == Min(left, avail)
             shift       == avail - chunk
             \* (buf_[byte_idx] & mask) >> shift, mask = ((1 << chunk) - 1) << shift
             bits        == (br.buf[byte_idx + 1] % (2 ^ (chunk + shift))) \div (2 ^ shift)
         IN  readULoop([br EXCEPT !.pos = @ + chunk], left - chunk,
                       ShlOr(result, chunk, bits))

\* readU on a reader that has not thrown: [br, val]; br.exc is set on a throw.
readU(br, n) ==
    LET chk == boundsCheck(br, n)
    IN  IF chk # NoExc THEN [br |-> [br EXCEPT !.exc = chk], val |-> U64(0)]
        ELSE readULoop(br, n, U64(0))

readBit(br) == LET r == readU(br, 1) IN [br |-> r.br, val |-> (r.val # U64(0))]

skip(br, n) ==
    LET chk == boundsCheck(br, n)
    IN  IF chk # NoExc THEN [br EXCEPT !.exc = chk]
        ELSE [br EXCEPT !.pos = @ + n]

bitsRead(br) == br.pos

bytesRead(br) == br.pos \div 8

byteAligned(br) == br.pos % 8 = 0

\* if (!byteAligned()) pos_ = (pos_ + 7) & ~size_t{7};
alignToByte(br) ==
    IF ~byteAligned(br) THEN [br EXCEPT !.pos = ((@ + 7) \div 8) * 8] ELSE br

requireAligned(br, where) ==
    IF ~byteAligned(br)
    THEN Throw("logic_error", <<"BitReader::", where, " - not byte-aligned">>)
    ELSE NoExc

\* subReader(n_bytes): [br, sub]; sub is the reader returned, over the next
\* n_bytes bytes, and br has advanced past them. On a throw br.exc is set,
\* br.pos is as before and no reader is returned (sub is a reader of nothing).
subReader(br, n_bytes) ==
    LET chk == requireAligned(br, "subReader")
    IN  IF chk # NoExc
        THEN [br |-> [br EXCEPT !.exc = chk], sub |-> BitReader(<< >>)]
        ELSE IF bytesRead(br) + n_bytes > Len(br.buf)
        THEN [br  |-> [br EXCEPT !.exc =
                          Throw("out_of_range", <<"BitReader::subReader - out of bounds">>)],
              sub |-> BitReader(<< >>)]
        ELSE LET start == br.pos \div 8
             IN  [br  |-> [br EXCEPT !.pos = @ + n_bytes * 8],
                  sub |-> BitReader(SubSeq(br.buf, start + 1, start + n_bytes))]

\* ------------------------------------------------------------------------
\*  BitWriter
\* ------------------------------------------------------------------------

BitWriter == [buf |-> << >>, pos |-> 0, exc |-> NoExc]

RECURSIVE writeULoop(_, _, _)
writeULoop(bw, value, left) ==
    IF left = 0 THEN bw
    ELSE LET buf0        == IF bw.buf = << >> \/ bw.pos % 8 = 0
                            THEN Append(bw.buf, 0) ELSE bw.buf
             bit_in_byte == bw.pos % 8
             avail       == 8 - bit_in_byte
             chunk       == Min(left, avail)
             field_shift == left - chunk
             bits        == ShrAnd(value, field_shift, chunk)
             byte_shift  == avail - chunk
             \* buf_.back() |= bits << byte_shift: the target bits are still 0
             last        == Len(buf0)
             buf1        == [buf0 EXCEPT ![last] = (@ + bits * (2 ^ byte_shift)) % 256]
         IN  writeULoop([bw EXCEPT !.buf = buf1, !.pos = @ + chunk], value, left - chunk)

\* writeU on a writer; a writer that has thrown stays as it is.
writeU(bw, value, n) ==
    IF bw.exc # NoExc THEN bw
    ELSE IF n = 0 \/ n > 64
         THEN [bw EXCEPT !.exc = Throw("invalid_argument", <<"BitWriter: bit count must be 1-64">>)]
         ELSE writeULoop(bw, IF n < 64 THEN MaskLow(value, n) ELSE value, n)

writeBit(bw, b) == writeU(bw, U64(IF b THEN 1 ELSE 0), 1)

writeByte(bw, b) == writeU(bw, U64(b), 8)

\* for (uint8_t b : data) writeU(b, 8): the bytes in order. The loop is
\* unrolled by halves (the first half, then the second), which writes the
\* same bytes in the same order.
RECURSIVE writeBytes(_, _)
writeBytes(bw, data) ==
    IF data = << >> \/ bw.exc # NoExc THEN bw
    ELSE IF Len(data) = 1 THEN writeU(bw, U64(data[1]), 8)
    ELSE LET h   == Len(data) \div 2
             bw1 == writeBytes(bw, SubSeq(data, 1, h))
         IN  writeBytes(bw1, SubSeq(data, h + 1, Len(data)))

\* ------------------------------------------------------------------------
\*  Item-level decode
\* ------------------------------------------------------------------------

\* DecodedItem out; out.item_id = def.id; out.type = def.type;
NewItem(def) ==
    [item_id |-> def.id, type |-> def.type, fields |-> EmptyMap,
     repetitions |-> << >>, group_repetitions |-> << >>, raw_bytes |-> << >>,
     compound_sub_fields |-> EmptyMap]

\* for (e : elems) { if (e.is_spare) { br.skip(e.bits); continue; }
\*                   fields[e.name] = br.readU(e.bits); }
\* st = [br, fields]; the loop stops at the first throw (st.br.exc).
RECURSIVE decodeFixedElements(_, _)
decodeFixedElements(elems, st) ==
    IF elems = << >> \/ st.br.exc # NoExc THEN st
    ELSE LET e == Head(elems)
             Read(r) == IF r.br.exc # NoExc THEN [st EXCEPT !.br = r.br]
                        ELSE [br |-> r.br, fields |-> MapPut(st.fields, e.name, Num(r.val))]
         IN  IF e.is_spare
             THEN decodeFixedElements(Tail(elems), [st EXCEPT !.br = skip(st.br, e.bits)])
             ELSE decodeFixedElements(Tail(elems), Read(readU(st.br, e.bits)))

\* The elements of one Extended octet, then br.skip(1) for the FX bit.
decodeOctetElements(oct, st) ==
    LET SkipFx(r) == IF r.br.exc # NoExc THEN r ELSE [r EXCEPT !.br = skip(r.br, 1)]
    IN  SkipFx(decodeFixedElements(oct.elements, st))

ItemThrow(what) == [exc |-> Throw("runtime_error", what), consumed |-> 0]

ItemOk(item, consumed) == [exc |-> NoExc, item |-> item, consumed |-> consumed]

decodeFixed(def, item_buf) ==
    LET Done(r) == IF r.br.exc # NoExc THEN [exc |-> r.br.exc, consumed |-> 0]
                   ELSE ItemOk([NewItem(def) EXCEPT !.fields = r.fields], def.fixed_bytes)
    IN  IF Len(item_buf) < def.fixed_bytes
        THEN ItemThrow(<<"Item ", def.id, ": buffer too short for Fixed">>)
        ELSE Done(decodeFixedElements(def.elements,
                    [br |-> BitReader(SubSeq(item_buf, 1, def.fixed_bytes)),
                     fields |-> EmptyMap]))

RECURSIVE decodeExtendedLoop(_, _, _, _, _)
decodeExtendedLoop(def, item_buf, oct_idx, offset, fields) ==
    IF offset >= Len(item_buf)
    THEN ItemThrow(<<"Item ", def.id, ": unexpected end of buffer in Extended">>)
    ELSE LET raw_byte == item_buf[offset + 1]
             fx       == (raw_byte % 2) # 0
             Octet(r) ==
                 IF r.br.exc # NoExc THEN [exc |-> r.br.exc, consumed |-> 0]
                 ELSE IF ~fx
                      THEN ItemOk([NewItem(def) EXCEPT !.fields = r.fields], offset + 1)
                      ELSE decodeExtendedLoop(def, item_buf, oct_idx + 1, offset + 1, r.fields)
         IN  IF oct_idx < Len(def.octets)
             THEN Octet(decodeOctetElements(def.octets[oct_idx + 1],
                          [br |-> BitReader(<<raw_byte>>), fields |-> fields]))
             ELSE Octet([br |-> BitReader(<< >>), fields |-> fields])

\* An Extended decode that reads no octet past those of the schema.
decodeExtendedWithinSchema(def, item_buf) ==
    decodeExtendedLoop(def, SubSeq(item_buf, 1, Min(Len(item_buf), Len(def.octets))),
                       0, 0, EmptyMap)

decodeExtended(def, item_buf) == decodeExtendedLoop(def, item_buf, 0, 0, EmptyMap)

RECURSIVE decodeRepetitiveLoop(_, _, _, _)
decodeRepetitiveLoop(def, item_buf, offset, reps) ==
    IF offset >= Len(item_buf)
    THEN ItemThrow(<<"Item ", def.id, ": buffer too short in Repetitive">>)
    ELSE LET raw_byte == item_buf[offset + 1]
             fx       == (raw_byte % 2) # 0
             val      == (raw_byte \div 2) % 128
             reps1    == Append(reps, val)
         IN  IF ~fx
             THEN ItemOk([NewItem(def) EXCEPT !.repetitions = reps1], offset + 1)
             ELSE decodeRepetitiveLoop(def, item_buf, offset + 1, reps1)

decodeRepetitive(def, item_buf) == decodeRepetitiveLoop(def, item_buf, 0, << >>)

\* One structured group over a group_bytes-wide window at offset.
decodeGroup(elems, item_buf, offset, group_bytes) ==
    decodeFixedElements(elems,
        [br |-> BitReader(SubSeq(item_buf, offset + 1, offset + group_bytes)),
         fields |-> EmptyMap])

RECURSIVE decodeRepetitiveGroupLoop(_, _, _, _, _, _)
decodeRepetitiveGroupLoop(def, item_buf, i, rep_count, offset, grps) ==
    IF ~(i < rep_count) THEN [exc |-> NoExc, grps |-> grps]
    ELSE LET group_bytes == def.rep_group_bits \div 8
             Group(r) ==
                 IF r.br.exc # NoExc THEN [exc |-> r.br.exc, grps |-> grps]
                 ELSE decodeRepetitiveGroupLoop(def, item_buf, i + 1, rep_count,
                                                offset + group_bytes, Append(grps, r.fields))
         IN  Group(decodeGroup(def.rep_group_elements, item_buf, offset, group_bytes))

\* A RepetitiveGroup decode that takes a count of 0 for a short buffer.
decodeRepetitiveGroupNeedsOne(def, item_buf) ==
    IF item_buf = << >>
    THEN ItemThrow(<<"Item ", def.id, ": buffer too short for RepetitiveGroup">>)
    ELSE LET rep_count   == item_buf[1]
             group_bytes == def.rep_group_bits \div 8
             total_need  == 1 + rep_count * group_bytes
             Done(r) == IF r.exc # NoExc THEN [exc |-> r.exc, consumed |-> 0]
                        ELSE ItemOk([NewItem(def) EXCEPT !.group_repetitions = r.grps],
                                    total_need)
         IN  IF rep_count = 0 \/ Len(item_buf) < total_need
             THEN ItemThrow(<<"Item ", def.id, ": buffer too short for RepetitiveGroup data">>)
             ELSE Done(decodeRepetitiveGroupLoop(def, item_buf, 0, rep_count, 1, << >>))

decodeRepetitiveGroup(def, item_buf) ==
    IF item_buf = << >>
    THEN ItemThrow(<<"Item ", def.id, ": buffer too short for RepetitiveGroup">>)
    ELSE LET rep_count   == item_buf[1]
             group_bytes == def.rep_group_bits \div 8
             total_need  == 1 + rep_count * group_bytes
             Done(r) == IF r.exc # NoExc THEN [exc |-> r.exc, consumed |-> 0]
                        ELSE ItemOk([NewItem(def) EXCEPT !.group_repetitions = r.grps],
                                    total_need)
         IN  IF Len(item_buf) < total_need
             THEN ItemThrow(<<"Item ", def.id, ": buffer too short for RepetitiveGroup data">>)
             ELSE Done(decodeRepetitiveGroupLoop(def, item_buf, 0, rep_count, 1, << >>))

RECURSIVE decodeRepetitiveGroupFXLoop(_, _, _, _)
decodeRepetitiveGroupFXLoop(def, item_buf, offset, grps) ==
    LET group_bytes == (def.rep_group_bits + 1) \div 8
        Fx(fields, fx) ==
            IF fx.br.exc # NoExc THEN [exc |-> fx.br.exc, consumed |-> 0]
            ELSE IF ~fx.val
                 THEN ItemOk([NewItem(def) EXCEPT
                                !.group_repetitions = Append(grps, fields)],
                             offset + group_bytes)
                 ELSE decodeRepetitiveGroupFXLoop(def, item_buf, offset + group_bytes,
                                                  Append(grps, fields))
        Group(r) == IF r.br.exc # NoExc THEN [exc |-> r.br.exc, consumed |-> 0]
                    ELSE Fx(r.fields, readBit(r.br))
    IN  IF offset + group_bytes > Len(item_buf)
        THEN ItemThrow(<<"Item ", def.id, ": buffer too short in RepetitiveGroupFX">>)
        ELSE Group(decodeGroup(def.rep_group_elements, item_buf, offset, group_bytes))

decodeRepetitiveGroupFX(def, item_buf) == decodeRepetitiveGroupFXLoop(def, item_buf, 0, << >>)

\* An Explicit decode whose length byte counts the payload only.
decodeSPPayloadLength(def, item_buf) ==
    IF item_buf = << >>
    THEN ItemThrow(<<"Item ", def.id, ": empty buffer for Explicit">>)
    ELSE LET len == item_buf[1]
         IN  IF Len(item_buf) < len + 1
             THEN ItemThrow(<<"Item ", def.id, ": Explicit length out of range">>)
             ELSE ItemOk([NewItem(def) EXCEPT !.raw_bytes = SubSeq(item_buf, 2, len + 1)],
                         len + 1)

decodeSP(def, item_buf) ==
    IF item_buf = << >>
    THEN ItemThrow(<<"Item ", def.id, ": empty buffer for Explicit">>)
    ELSE LET len == item_buf[1]
         IN  IF len < 1 \/ Len(item_buf) < len
             THEN ItemThrow(<<"Item ", def.id, ": Explicit length out of range">>)
             ELSE ItemOk([NewItem(def) EXCEPT !.raw_bytes = SubSeq(item_buf, 2, len)], len)

\* do { b = item_buf[offset++]; psf.push_back(b); } while (psf.back() & 1);
RECURSIVE readPsf(_, _, _)
readPsf(item_buf, offset, psf) ==
    IF offset >= Len(item_buf) THEN [ok |-> FALSE, psf |-> psf, offset |-> offset]
    ELSE LET b == item_buf[offset + 1]
         IN  IF b % 2 = 1 THEN readPsf(item_buf, offset + 1, Append(psf, b))
             ELSE [ok |-> TRUE, psf |-> Append(psf, b), offset |-> offset + 1]

RECURSIVE decodeCompoundLoop(_, _, _, _, _, _)
decodeCompoundLoop(def, item_buf, psf, slot, offset, subs) ==
    IF ~(slot < Len(def.compound_sub_items))
    THEN ItemOk([NewItem(def) EXCEPT !.compound_sub_fields = subs], offset)
    ELSE LET si       == def.compound_sub_items[slot + 1]
             psf_byte == slot \div 7
             psf_bit  == 7 - (slot % 7)
             present  == psf_byte < Len(psf) /\ BitAt(psf[psf_byte + 1], psf_bit) = 1
             Sub(r) == IF r.br.exc # NoExc THEN [exc |-> r.br.exc, consumed |-> 0]
                       ELSE decodeCompoundLoop(def, item_buf, psf, slot + 1,
                                               offset + si.fixed_bytes,
                                               MapPut(subs, si.name, r.fields))
         IN  IF ~present \/ si.name = "-"
             THEN decodeCompoundLoop(def, item_buf, psf, slot + 1, offset, subs)
             ELSE IF offset + si.fixed_bytes > Len(item_buf)
                  THEN ItemThrow(<<"Item ", def.id, "/", si.name,
                                   ": buffer too short for Compound sub-item">>)
                  ELSE Sub(decodeGroup(si.elements, item_buf, offset, si.fixed_bytes))

\* A Compound decode that takes the first byte as the whole PSF, whatever
\* its FX bit says.
decodeCompoundOnePsf(def, item_buf) ==
    IF item_buf = << >> THEN ItemThrow(<<"Item ", def.id, ": truncated Compound PSF">>)
    ELSE decodeCompoundLoop(def, item_buf, <<item_buf[1]>>, 0, 1, EmptyMap)

decodeCompound(def, item_buf) ==
    LET p == readPsf(item_buf, 0, << >>)
    IN  IF ~p.ok THEN ItemThrow(<<"Item ", def.id, ": truncated Compound PSF">>)
        ELSE decodeCompoundLoop(def, item_buf, p.psf, 0, p.offset, EmptyMap)

\* Codec::decodeItem: [exc, item, consumed]
decodeItem(def, item_buf) ==
    CASE def.type = "Fixed"             -> decodeFixed(def, item_buf)
      [] def.type = "Extended"          -> decodeExtended(def, item_buf)
      [] def.type = "Repetitive"        -> decodeRepetitive(def, item_buf)
      [] def.type = "RepetitiveGroup"   -> decodeRepetitiveGroup(def, item_buf)
      [] def.type = "RepetitiveGroupFX" -> decodeRepetitiveGroupFX(def, item_buf)
      [] def.type = "SP"                -> decodeSP(def, item_buf)
      [] def.type = "Compound"          -> decodeCompound(def, item_buf)
      [] OTHER -> ItemThrow(<<"Item ", def.id, ": unsupported item type">>)

\* ------------------------------------------------------------------------
\*  UAP selection
\* ------------------------------------------------------------------------

IsSentinel(id) == id = "-" \/ id = "rfs"

\* cat.items.find(id): the index of the entry, 0 for end()
ItemsFind(cat, id) ==
    IF \E i \in 1..Len(cat.items) : cat.items[i].id = id
    THEN CHOOSE i \in 1..Len(cat.items) : cat.items[i].id = id
    ELSE 0

\* A resolveVariation that does not look at the discriminator item.
resolveVariationDefault(cat, partial) == cat.default_variation

resolveVariation(cat, partial) ==
    IF ~cat.uap_case.has_value THEN cat.default_variation
    ELSE LET uc == cat.uap_case
         IN  IF uc.item_id \notin DOMAIN partial.items THEN cat.default_variation
             ELSE LET fields == partial.items[uc.item_id].fields
                  IN  IF uc.field \notin DOMAIN fields THEN cat.default_variation
                      ELSE IF fields[uc.field] \notin DOMAIN uc.value_to_variation
                           THEN cat.default_variation
                           ELSE uc.value_to_variation[fields[uc.field]]

\* ------------------------------------------------------------------------
\*  Record-level decode
\* ------------------------------------------------------------------------

NewRecord == [items |-> EmptyMap, uap_variation |-> "", valid |-> TRUE, error |-> << >>]

\* while (pos < buf.size()) { b = buf[pos++]; fspec.push_back(b);
\*                            if ((b & 1) == 0) break; }
RECURSIVE readFspec(_, _, _)
readFspec(buf, pos, fspec) ==
    IF ~(pos < Len(buf)) THEN [fspec |-> fspec, pos |-> pos]
    ELSE LET b == buf[pos + 1]
         IN  IF b % 2 = 0 THEN [fspec |-> Append(fspec, b), pos |-> pos + 1]
             ELSE readFspec(buf, pos + 1, Append(fspec, b))

\* An isPresent that numbers the presence bits of an FSPEC octet from the
\* least significant end.
isPresentLsbFirst(fspec, slot_1based) ==
    IF slot_1based = 0 THEN FALSE
    ELSE LET idx       == (slot_1based - 1) \div 7
             bit_shift == 1 + ((slot_1based - 1) % 7)
         IN  IF idx >= Len(fspec) THEN FALSE
             ELSE BitAt(fspec[idx + 1], bit_shift) # 0

isPresent(fspec, slot_1based) ==
    IF slot_1based = 0 THEN FALSE
    ELSE LET idx       == (slot_1based - 1) \div 7
             bit_shift == 7 - ((slot_1based - 1) % 7)
         IN  IF idx >= Len(fspec) THEN FALSE
             ELSE BitAt(fspec[idx + 1], bit_shift) # 0

\* Step 4 of decodeRecord. st = [exc, pos, rec, uap]; uap is the slot list the
\* pointer `uap` refers to.
RECURSIVE decodeItems(_, _, _, _, _)
decodeItems(buf, cat, fspec, slot, st) ==
    IF ~(slot <= Len(st.uap)) THEN st
    ELSE LET item_id == st.uap[slot]
             \* rec.items[item_id] = decoded item; then the UAP switch
             Switch(rec1, var, consumed) ==
                 IF cat.uap_case.has_value /\ item_id = cat.uap_case.item_id
                    /\ var \in DOMAIN cat.uap_variations
                 THEN [exc |-> NoExc, pos |-> st.pos + consumed,
                       rec |-> [rec1 EXCEPT !.uap_variation = var],
                       uap |-> cat.uap_variations[var]]
                 ELSE [exc |-> NoExc, pos |-> st.pos + consumed,
                       rec |-> rec1, uap |-> st.uap]
             Store(rec1, consumed) == Switch(rec1, resolveVariation(cat, rec1), consumed)
             After(di) ==
                 IF di.exc # NoExc THEN [st EXCEPT !.exc = di.exc]
                 ELSE decodeItems(buf, cat, fspec, slot + 1,
                        Store([st.rec EXCEPT !.items = MapPut(@, item_id, di.item)],
                              di.consumed))
             Found(def_it) ==
                 IF def_it = 0
                 THEN [st EXCEPT !.exc = Throw("runtime_error",
                                   <<"FSPEC references unknown item: ", item_id>>)]
                 ELSE After(decodeItem(cat.items[def_it], SubSeq(buf, st.pos + 1, Len(buf))))
         IN  IF IsSentinel(item_id) THEN decodeItems(buf, cat, fspec, slot + 1, st)
             ELSE IF ~isPresent(fspec, slot) THEN decodeItems(buf, cat, fspec, slot + 1, st)
             ELSE Found(ItemsFind(cat, item_id))

\* A missing mandatory item that costs the record the items it decoded.
markMissingDropsItems(rec, id) ==
    [rec EXCEPT !.valid = FALSE, !.items = EmptyMap,
                !.error = <<"Mandatory item ", id, " not present">>]

\* rec.valid = false; rec.error = "Mandatory item " + id + " not present";
markMissing(rec, id) ==
    [rec EXCEPT !.valid = FALSE, !.error = <<"Mandatory item ", id, " not present">>]

\* Step 5 of decodeRecord: every Mandatory item of cat.items, in key order.
RECURSIVE mandatoryCheck(_, _, _)
mandatoryCheck(cat, i, rec) ==
    IF i > Len(cat.items) THEN rec
    ELSE LET def == cat.items[i]
         IN  mandatoryCheck(cat, i + 1,
                IF def.presence = "Mandatory" /\ def.id \notin DOMAIN rec.items
                THEN markMissing(rec, def.id)
                ELSE rec)

\* A decodeRecord that reports the bytes of the items only, not those of
\* the FSPEC.
decodeRecordItemBytesOnly(buf, cat) ==
    LET Finish(rec) == IF rec.uap_variation = ""
                       THEN [rec EXCEPT !.uap_variation = cat.default_variation]
                       ELSE rec
        Items(st, fspec_len) ==
            IF st.exc # NoExc
            THEN [exc |-> st.exc, bytes_consumed |-> 0, rec |-> NewRecord]
            ELSE [exc |-> NoExc, bytes_consumed |-> st.pos - fspec_len,
                  rec |-> mandatoryCheck(cat, 1, Finish(st.rec))]
        Fspec(f) ==
            IF f.fspec = << >>
            THEN [exc |-> Throw("runtime_error", <<"Record has empty FSPEC">>),
                  bytes_consumed |-> 0, rec |-> NewRecord]
            ELSE IF cat.default_variation \notin DOMAIN cat.uap_variations
            THEN [exc |-> Throw("out_of_range", <<"map::at">>),
                  bytes_consumed |-> 0, rec |-> NewRecord]
            ELSE Items(decodeItems(buf, cat, f.fspec, 1,
                         [exc |-> NoExc, pos |-> f.pos, rec |-> NewRecord,
                          uap |-> cat.uap_variations[cat.default_variation]]), f.pos)
    IN  IF buf = << >>
        THEN [exc |-> NoExc, bytes_consumed |-> 0,
              rec |-> [NewRecord EXCEPT !.valid = FALSE,
                                        !.error = <<"decodeRecord called on empty buffer">>]]
        ELSE Fspec(readFspec(buf, 0, << >>))

\* Codec::decodeRecord: [exc, rec, bytes_consumed]
decodeRecord(buf, cat) ==
    LET Finish(rec) == IF rec.uap_variation = ""
                       THEN [rec EXCEPT !.uap_variation = cat.default_variation]
                       ELSE rec
        Items(st) == IF st.exc # NoExc
                     THEN [exc |-> st.exc, bytes_consumed |-> 0, rec |-> NewRecord]
                     ELSE [exc |-> NoExc, bytes_consumed |-> st.pos,
                           rec |-> mandatoryCheck(cat, 1, Finish(st.rec))]
        Fspec(f) ==
            IF f.fspec = << >>
            THEN [exc |-> Throw("runtime_error", <<"Record has empty FSPEC">>),
                  bytes_consumed |-> 0, rec |-> NewRecord]
            ELSE IF cat.default_variation \notin DOMAIN cat.uap_variations
            THEN [exc |-> Throw("out_of_range", <<"map::at">>),
                  bytes_consumed |-> 0, rec |-> NewRecord]
            ELSE Items(decodeItems(buf, cat, f.fspec, 1,
                         [exc |-> NoExc, pos |-> f.pos, rec |-> NewRecord,
                          uap |-> cat.uap_variations[cat.default_variation]]))
    IN  IF buf = << >>
        THEN [exc |-> NoExc, bytes_consumed |-> 0,
              rec |-> [NewRecord EXCEPT !.valid = FALSE,
                                        !.error = <<"decodeRecord called on empty buffer">>]]
        ELSE Fspec(readFspec(buf, 0, << >>))

\* ------------------------------------------------------------------------
\*  Category registry
\* ------------------------------------------------------------------------

\* Codec::category(cat): [exc, def]; def is the stored schema referred to
category(cats, cat) ==
    IF cat \notin DOMAIN cats
    THEN [exc |-> Throw("runtime_error", <<"Category ", ToString(cat), " not registered">>),
          def |-> << >>]
    ELSE [exc |-> NoExc, def |-> cats[cat]]

\* ------------------------------------------------------------------------
\*  Public decode
\* ------------------------------------------------------------------------

NewBlock == [cat |-> 0, length |-> 0, records |-> << >>, valid |-> TRUE, error |-> << >>]

\* A catch handler that also discards the records decoded so far.
catchRecordErrorDropsRecords(block, ex) ==
    [block EXCEPT !.valid = FALSE, !.error = <<"Record decode error: ">> \o ex.what,
                  !.records = << >>]

\* A catch handler that reports the failure as an invalid record of the list
\* and leaves the block's own error empty.
catchRecordErrorIntoRecord(block, ex) ==
    [block EXCEPT !.records = Append(@, [NewRecord EXCEPT !.valid = FALSE,
                                                          !.error = ex.what])]

\* catch (const std::exception& ex) of the record loop:
\* block.valid = false; block.error = "Record decode error: " + ex.what(); break;
catchRecordError(block, ex) ==
    [block EXCEPT !.valid = FALSE, !.error = <<"Record decode error: ">> \o ex.what]

\* The record loop of Codec::decode over payload, with its try/catch.
\* Returns [exc, block]: exc is an exception that leaves decode.
RECURSIVE decodeLoop(_, _, _, _)
decodeLoop(payload, cat, pos, block) ==
    IF ~(pos < Len(payload)) THEN [exc |-> NoExc, block |-> block]
    ELSE LET Pushed(block1, bytes_consumed) ==
                 IF bytes_consumed = 0
                 THEN [exc |-> NoExc,
                       block |-> [block1 EXCEPT !.valid = FALSE,
                          !.error = <<"Infinite loop guard: no bytes consumed decoding record">>]]
                 ELSE decodeLoop(payload, cat, pos + bytes_consumed, block1)
             Record(r) ==
                 IF r.exc # NoExc
                 THEN [exc |-> NoExc, block |-> catchRecordError(block, r.exc)]
                 ELSE Pushed([block EXCEPT !.records = Append(@, r.rec)], r.bytes_consumed)
         IN  Record(decodeRecord(SubSeq(payload, pos + 1, Len(payload)), cat))

\* A decode whose registry lookup is cats_.at(cat) without the find() guard:
\* an unregistered category leaves decode as std::out_of_range.
decodeUnguardedLookup(cats_, buf) ==
    IF Len(buf) < 3
    THEN [exc |-> NoExc,
          block |-> [NewBlock EXCEPT !.valid = FALSE,
                       !.error = <<"Buffer too short for Data Block header (need >=3 bytes)">>]]
    ELSE LET hdr == [NewBlock EXCEPT !.cat = buf[1],
                                     !.length = (buf[2] * 256 + buf[3]) % 65536]
         IN  IF hdr.length < 3 \/ hdr.length > Len(buf)
             THEN [exc |-> NoExc,
                   block |-> [hdr EXCEPT !.valid = FALSE,
                                !.error = <<"Data Block LEN field (", ToString(hdr.length),
                                            ") is invalid">>]]
             ELSE IF hdr.cat \notin DOMAIN cats_
             THEN [exc |-> Throw("out_of_range", <<"unordered_map::at">>), block |-> hdr]
             ELSE decodeLoop(SubSeq(buf, 4, hdr.length), cats_[hdr.cat], 0, hdr)

\* A decode whose LEN check is off by one: block.length < 2 instead of < 3.
decodeLenOffByOne(cats_, buf) ==
    IF Len(buf) < 3
    THEN [exc |-> NoExc,
          block |-> [NewBlock EXCEPT !.valid = FALSE,
                       !.error = <<"Buffer too short for Data Block header (need >=3 bytes)">>]]
    ELSE LET hdr == [NewBlock EXCEPT !.cat = buf[1],
                                     !.length = (buf[2] * 256 + buf[3]) % 65536]
         IN  IF hdr.length < 2 \/ hdr.length > Len(buf)
             THEN [exc |-> NoExc,
                   block |-> [hdr EXCEPT !.valid = FALSE,
                                !.error = <<"Data Block LEN field (", ToString(hdr.length),
                                            ") is invalid">>]]
             ELSE IF hdr.cat \notin DOMAIN cats_
             THEN [exc |-> NoExc,
                   block |-> [hdr EXCEPT !.valid = FALSE,
                                !.error = <<"Category ", ToString(hdr.cat), " not registered">>]]
             ELSE decodeLoop(SubSeq(buf, 4, hdr.length), cats_[hdr.cat], 0, hdr)

\* A payload that runs to the end of the buffer, whatever LEN says.
payloadToEnd(buf, length) == SubSeq(buf, 4, Len(buf))

\* A payload that takes one byte past LEN when the buffer holds one.
payloadSpanPlusOne(buf, length) ==
    SubSeq(buf, 4, IF Len(buf) > length THEN length + 1 ELSE length)

\* auto payload = buf.subspan(3, block.length - 3);
payloadSpan(buf, length) == SubSeq(buf, 4, length)

\* Codec::decode(buf) on the registry cats_: [exc, block]
decode(cats_, buf) ==
    IF Len(buf) < 3
    THEN [exc |-> NoExc,
          block |-> [NewBlock EXCEPT !.valid = FALSE,
                       !.error = <<"Buffer too short for Data Block header (need >=3 bytes)">>]]
    ELSE LET hdr == [NewBlock EXCEPT !.cat = buf[1],
                                     !.length = (buf[2] * 256 + buf[3]) % 65536]
         IN  IF hdr.length < 3 \/ hdr.length > Len(buf)
             THEN [exc |-> NoExc,
                   block |-> [hdr EXCEPT !.valid = FALSE,
                                !.error = <<"Data Block LEN field (", ToString(hdr.length),
                                            ") is invalid">>]]
             ELSE IF hdr.cat \notin DOMAIN cats_
             THEN [exc |-> NoExc,
                   block |-> [hdr EXCEPT !.valid = FALSE,
                                !.error = <<"Category ", ToString(hdr.cat), " not registered">>]]
             ELSE decodeLoop(payloadSpan(buf, hdr.length), cats_[hdr.cat], 0, hdr)

\* ------------------------------------------------------------------------
\*  Item-level encode
\* ------------------------------------------------------------------------

\* std::map lookup with default 0: it = m.find(name); v = (it != end) ? it->second : 0
FieldOrZero(m, name) == IF name \in DOMAIN m THEN m[name] ELSE 0

\* for (e : elems) { if (e.is_spare) { bw.writeU(0, e.bits); continue; }
\*                   bw.writeU(value of e.name in fields or 0, e.bits); }
RECURSIVE encodeFixedElements(_, _, _)
encodeFixedElements(elems, fields, bw) ==
    IF elems = << >> THEN bw
    ELSE LET e == Head(elems)
         IN  encodeFixedElements(Tail(elems), fields,
                IF e.is_spare THEN writeU(bw, U64(0), e.bits)
                ELSE writeU(bw, U64(FieldOrZero(fields, e.name)), e.bits))

\* A last_useful that never looks past the first octet.
lastUsefulFirstOctet(def, val) == 1

\* A last_useful that counts every field the value holds, zero or not.
lastUsefulAnyField(def, val) ==
    LET useful == {i \in 1..Len(def.octets) :
                     \E k \in 1..Len(def.octets[i].elements) :
                        LET e == def.octets[i].elements[k]
                        IN  ~e.is_spare /\ e.name \in DOMAIN val.fields}
    IN  IF useful = {} THEN 1 ELSE CHOOSE i \in useful : \A j \in useful : j <= i

\* last_useful of the Extended case: i + 1 for the last octet i holding a
\* non-spare element with a non-zero value, at least 1.
lastUseful(def, val) ==
    LET useful == {i \in 1..Len(def.octets) :
                     \E k \in 1..Len(def.octets[i].elements) :
                        LET e == def.octets[i].elements[k]
                        IN  ~e.is_spare /\ e.name \in DOMAIN val.fields
                            /\ val.fields[e.name] # 0}
    IN  IF useful = {} THEN 1 ELSE CHOOSE i \in useful : \A j \in useful : j <= i

RECURSIVE encodeExtendedLoop(_, _, _, _, _)
encodeExtendedLoop(def, val, i, last_useful, bw) ==
    IF ~(i < last_useful) THEN bw
    ELSE LET is_last == (i + 1 = last_useful)
             bw1     == encodeFixedElements(def.octets[i + 1].elements, val.fields, bw)
         IN  encodeExtendedLoop(def, val, i + 1, last_useful, writeBit(bw1, ~is_last))

RECURSIVE encodeRepetitiveLoop(_, _, _)
encodeRepetitiveLoop(reps, i, bw) ==
    IF ~(i < Len(reps)) THEN bw
    ELSE LET is_last == (i + 1 = Len(reps))
         IN  encodeRepetitiveLoop(reps, i + 1,
                writeBit(writeU(bw, U64(reps[i + 1] % 128), 7), ~is_last))

\* A Repetitive encode that writes nothing for an empty list.
encodeRepetitiveSkipsEmpty(val, bw) == encodeRepetitiveLoop(val.repetitions, 0, bw)

encodeRepetitive(val, bw) ==
    IF val.repetitions = << >> THEN writeBit(writeU(bw, U64(0), 7), FALSE)
    ELSE encodeRepetitiveLoop(val.repetitions, 0, bw)

RECURSIVE encodeGroups(_, _, _)
encodeGroups(elems, grps, bw) ==
    IF grps = << >> THEN bw
    ELSE encodeGroups(elems, Tail(grps), encodeFixedElements(elems, Head(grps), bw))

\* bw.writeByte(static_cast<uint8_t>(grps.size())); then every group
encodeRepetitiveGroup(def, val, bw) ==
    encodeGroups(def.rep_group_elements, val.group_repetitions,
                 writeByte(bw, Len(val.group_repetitions) % 256))

RECURSIVE encodeGroupsFX(_, _, _, _)
encodeGroupsFX(elems, grps, i, bw) ==
    IF ~(i < Len(grps)) THEN bw
    ELSE LET is_last == (i + 1 = Len(grps))
         IN  encodeGroupsFX(elems, grps, i + 1,
                writeBit(encodeFixedElements(elems, grps[i + 1], bw), ~is_last))

\* A RepetitiveGroupFX encode that writes nothing for an empty list.
encodeRepetitiveGroupFXSkipsEmpty(def, val, bw) ==
    encodeGroupsFX(def.rep_group_elements, val.group_repetitions, 0, bw)

encodeRepetitiveGroupFX(def, val, bw) ==
    IF val.group_repetitions = << >>
    THEN writeBit(encodeFixedElements(def.rep_group_elements, EmptyMap, bw), FALSE)
    ELSE encodeGroupsFX(def.rep_group_elements, val.group_repetitions, 0, bw)

\* uint8_t len = static_cast<uint8_t>(val.raw_bytes.size() + 1);
encodeSP(val, bw) ==
    writeBytes(writeByte(bw, (Len(val.raw_bytes) + 1) % 256), val.raw_bytes)

SubPresent(subs, val, i) ==
    subs[i + 1].name # "-" /\ subs[i + 1].name \in DOMAIN val.compound_sub_fields

\* for (i < subs.size()) if (present sub-item i) psf_bytes[i / 7] |= 1 << (7 - i % 7);
RECURSIVE psfSetBits(_, _, _, _)
psfSetBits(subs, val, i, psf_bytes) ==
    IF ~(i < Len(subs)) THEN psf_bytes
    ELSE IF ~SubPresent(subs, val, i) THEN psfSetBits(subs, val, i + 1, psf_bytes)
    ELSE psfSetBits(subs, val, i + 1,
                    [psf_bytes EXCEPT ![(i \div 7) + 1] = OrBit(@, 7 - (i % 7))])

\* PSF bytes for every slot of the schema, whichever sub-items are present.
compoundPsfWholeSchema(def, val) ==
    LET subs      == def.compound_sub_items
        last_psf_byte == IF Len(subs) > 0 THEN (Len(subs) - 1) \div 7 ELSE 0
        psf_bytes == psfSetBits(subs, val, 0, [k \in 1..(last_psf_byte + 1) |-> 0])
    IN  [k \in 1..Len(psf_bytes) |->
           IF k < Len(psf_bytes) THEN OrBit(psf_bytes[k], 0) ELSE psf_bytes[k]]

\* The PSF bytes of the Compound case.
compoundPsf(def, val) ==
    LET subs      == def.compound_sub_items
        slots     == {i \in 0..(Len(subs) - 1) : SubPresent(subs, val, i)}
        last_slot == IF slots = {} THEN -1
                     ELSE CHOOSE i \in slots : \A j \in slots : j <= i
        last_psf_byte == IF last_slot >= 0 THEN last_slot \div 7 ELSE 0
        psf_bytes == psfSetBits(subs, val, 0, [k \in 1..(last_psf_byte + 1) |-> 0])
    IN  [k \in 1..Len(psf_bytes) |->
           IF k < Len(psf_bytes) THEN OrBit(psf_bytes[k], 0) ELSE psf_bytes[k]]

RECURSIVE encodeSubItems(_, _, _)
encodeSubItems(subs, val, bw) ==
    IF subs = << >> THEN bw
    ELSE LET si == Head(subs)
         IN  encodeSubItems(Tail(subs), val,
                IF si.name = "-" \/ si.name \notin DOMAIN val.compound_sub_fields THEN bw
                ELSE encodeFixedElements(si.elements, val.compound_sub_fields[si.name], bw))

encodeCompound(def, val, bw) ==
    encodeSubItems(def.compound_sub_items, val, writeBytes(bw, compoundPsf(def, val)))

\* Codec::encodeItem: [exc, bytes]. An Extended def has at least one octet
\* (SpecLoader rejects one without), so def.octets[i] is always in range.
encodeItem(def, val) ==
    LET Take(bw) == [exc |-> bw.exc, bytes |-> IF bw.exc # NoExc THEN << >> ELSE bw.buf]
    IN  Take(CASE def.type = "Fixed" -> encodeFixedElements(def.elements, val.fields, BitWriter)
               [] def.type = "Extended" ->
                    encodeExtendedLoop(def, val, 0, lastUseful(def, val), BitWriter)
               [] def.type = "Repetitive" -> encodeRepetitive(val, BitWriter)
               [] def.type = "RepetitiveGroup" -> encodeRepetitiveGroup(def, val, BitWriter)
               [] def.type = "RepetitiveGroupFX" -> encodeRepetitiveGroupFX(def, val, BitWriter)
               [] def.type = "SP" -> encodeSP(val, BitWriter)
               [] def.type = "Compound" -> encodeCompound(def, val, BitWriter)
               [] OTHER -> [BitWriter EXCEPT !.exc = Throw("runtime_error",
                               <<"encodeItem: unsupported item type for ", def.id>>)])

\* ------------------------------------------------------------------------
\*  Record-level encode
\* ------------------------------------------------------------------------

\* A presence vector without the sentinel test of its loop.
presentVectorNoSentinel(uap, rec) ==
    [i \in 1..Len(uap) |-> uap[i] \in DOMAIN rec.items]

\* std::vector<bool> present of encodeRecord
presentVector(uap, rec) ==
    [i \in 1..Len(uap) |-> ~IsSentinel(uap[i]) /\ uap[i] \in DOMAIN rec.items]

\* A last_fspec that is the last FSPEC octet of the UAP, whether or not one
\* of its slots is present.
lastFspecOfUap(present) ==
    IF Len(present) = 0 THEN 0 ELSE (Len(present) - 1) \div 7

\* last_fspec: the last FSPEC octet with a present slot, 0 when there is none
lastFspec(present) ==
    LET octs == {(s - 1) \div 7 : s \in {t \in 1..Len(present) : present[t]}}
    IN  IF octs = {} THEN 0 ELSE CHOOSE i \in octs : \A j \in octs : j <= i

\* for (s = i*7; s < (i+1)*7 && s < total_slots; ++s) if (present[s]) b |= 1 << (7 - s % 7);
RECURSIVE fspecPack(_, _, _, _)
fspecPack(present, i, s, b) ==
    IF ~(s < (i + 1) * 7 /\ s < Len(present)) THEN b
    ELSE fspecPack(present, i, s + 1,
                   IF present[s + 1] THEN OrBit(b, 7 - (s % 7)) ELSE b)

\* The FSPEC bytes of encodeRecord for the presence vector.
buildFspec(present) ==
    LET last_fspec == lastFspec(present)
    IN  [k \in 1..(last_fspec + 1) |->
           LET b == fspecPack(present, k - 1, (k - 1) * 7, 0)
           IN  IF k - 1 # last_fspec THEN OrBit(b, 0) ELSE b]

\* The item loop of encodeRecord: [exc, bytes]
RECURSIVE encodeItems(_, _, _, _)
encodeItems(uap, rec, cat, payload) ==
    IF uap = << >> THEN [exc |-> NoExc, bytes |-> payload]
    ELSE LET id == Head(uap)
             Item(ib) == IF ib.exc # NoExc THEN [exc |-> ib.exc, bytes |-> << >>]
                         ELSE encodeItems(Tail(uap), rec, cat, payload \o ib.bytes)
             Found(def_it) ==
                 IF def_it = 0
                 THEN [exc |-> Throw("runtime_error",
                                 <<"encodeRecord: item def not found for ", id>>),
                       bytes |-> << >>]
                 ELSE Item(encodeItem(cat.items[def_it], rec.items[id]))
         IN  IF IsSentinel(id) \/ id \notin DOMAIN rec.items
             THEN encodeItems(Tail(uap), rec, cat, payload)
             ELSE Found(ItemsFind(cat, id))

\* Codec::encodeRecord: [exc, bytes]
encodeRecord(rec, cat) ==
    LET var == IF rec.uap_variation = "" THEN cat.default_variation ELSE rec.uap_variation
        Payload(uap, p) ==
            IF p.exc # NoExc THEN p
            ELSE [exc |-> NoExc, bytes |-> buildFspec(presentVector(uap, rec)) \o p.bytes]
    IN  IF var \notin DOMAIN cat.uap_variations
        THEN [exc |-> Throw("runtime_error",
                        <<"encodeRecord: unknown UAP variation '", var, "'">>),
              bytes |-> << >>]
        ELSE Payload(cat.uap_variations[var],
                     encodeItems(cat.uap_variations[var], rec, cat, << >>))

\* ------------------------------------------------------------------------
\*  Public encode
\* ------------------------------------------------------------------------

\* for (rec : records) { rb = encodeRecord(rec, cat); records_bytes += rb; }
\* The loop is unrolled by halves; the first record that throws ends it.
\* An insert of the record's bytes at the front of records_bytes.
insertRecordAtFront(records_bytes, rb) == rb \o records_bytes

\* records_bytes.insert(records_bytes.end(), rb.begin(), rb.end());
insertRecord(records_bytes, rb) == records_bytes \o rb

RECURSIVE encodeRecords(_, _)
encodeRecords(records, cat) ==
    IF records = << >> THEN [exc |-> NoExc, bytes |-> << >>]
    ELSE IF Len(records) = 1 THEN encodeRecord(records[1], cat)
    ELSE LET h == Len(records) \div 2
             Second(bytes1, r2) == IF r2.exc # NoExc THEN r2
                                   ELSE [exc |-> NoExc,
                                         bytes |-> insertRecord(bytes1, r2.bytes)]
             First(r1) == IF r1.exc # NoExc THEN r1
                          ELSE Second(r1.bytes,
                                      encodeRecords(SubSeq(records, h + 1, Len(records)), cat))
         IN  First(encodeRecords(SubSeq(records, 1, h), cat))

\* A block header with the low byte of LEN first.
blockBytesLowFirst(cat_num, records_bytes) ==
    LET total_len == (3 + Len(records_bytes)) % 65536
    IN  <<cat_num, total_len % 256, total_len \div 256>> \o records_bytes

\* uint16_t total_len = static_cast<uint16_t>(3 + records_bytes.size());
\* block = [cat_num, total_len >> 8, total_len & 0xFF] ++ records_bytes
blockBytes(cat_num, records_bytes) ==
    LET total_len == (3 + Len(records_bytes)) % 65536
    IN  <<cat_num, total_len \div 256, total_len % 256>> \o records_bytes

\* Codec::encode(cat_num, records) on the registry cats_: [exc, bytes]
encode(cats_, cat_num, records) ==
    LET Block(rb) == IF rb.exc # NoExc THEN rb
                     ELSE [exc |-> NoExc, bytes |-> blockBytes(cat_num, rb.bytes)]
    IN  IF cat_num \notin DOMAIN cats_
        THEN [exc |-> Throw("runtime_error",
                        <<"encode: Category ", ToString(cat_num), " not registered">>),
              bytes |-> << >>]
        ELSE Block(encodeRecords(records, cats_[cat_num]))

\* ------------------------------------------------------------------------
\*  Category schemas handed to registerCategory (what SpecLoader builds)
\* ------------------------------------------------------------------------

Element(name, bits) == [name |-> name, bits |-> bits, is_spare |-> FALSE]

Spare(bits) == [name |-> "", bits |-> bits, is_spare |-> TRUE]

RECURSIVE SumBits(_)
SumBits(elems) == IF elems = << >> THEN 0 ELSE Head(elems).bits + SumBits(Tail(elems))

BlankDef(id, type, presence) ==
    [id |-> id, type |-> type, presence |-> presence, elements |-> << >>,
     octets |-> << >>, rep_group_elements |-> << >>, rep_group_bits |-> 0,
     fixed_bytes |-> 0, compound_sub_items |-> << >>]

\* parseFixed: fixed_bytes = total_bits / 8
FixedDef(id, presence, elems) ==
    [BlankDef(id, "Fixed", presence) EXCEPT !.elements = elems,
                                            !.fixed_bytes = SumBits(elems) \div 8]

ExtendedDef(id, presence, octets) ==
    [BlankDef(id, "Extended", presence) EXCEPT !.octets = octets]

GroupDef(id, type, presence, elems) ==
    [BlankDef(id, type, presence) EXCEPT !.rep_group_elements = elems,
                                         !.rep_group_bits = SumBits(elems)]

SubItem(name, elems) ==
    [name |-> name, elements |-> elems, fixed_bytes |-> SumBits(elems) \div 8]

CompoundDef(id, presence, subs) ==
    [BlankDef(id, "Compound", presence) EXCEPT !.compound_sub_items = subs]

NoCase == [has_value |-> FALSE, item_id |-> "", field |-> "", value_to_variation |-> EmptyMap]

\* Category 1, in the shape of CAT01: two UAP variations that share their
\* first two slots, selected by I020/TYP.
Cat1 ==
    [cat |-> 1,
     items |-> <<
        FixedDef("010", "Mandatory", <<Element("SAC", 8), Element("SIC", 8)>>),
        ExtendedDef("020", "Optional",
           << [elements |-> <<Element("TYP", 1), Element("SIM", 1), Element("SSRPSR", 2),
                              Element("ANT", 1), Element("SPI", 1), Element("RAB", 1)>>],
              [elements |-> <<Element("TST", 1), Element("DS1DS2", 2), Element("ME", 1),
                              Element("MI", 1), Spare(2)>>] >>),
        FixedDef("040", "Optional", <<Element("RHO", 16), Element("THETA", 16)>>),
        FixedDef("161", "Optional", <<Spare(4), Element("TRKNB", 12)>>),
        FixedDef("200", "Optional", <<Element("GSP", 16)>>),
        BlankDef("SP", "SP", "Optional") >>,
     uap_variations |->
        [plot  |-> <<"010", "020", "040", "-", "SP", "rfs">>,
         track |-> <<"010", "020", "161", "040", "-", "SP", "rfs", "200">>],
     default_variation |-> "plot",
     uap_case |-> [has_value |-> TRUE, item_id |-> "020", field |-> "TYP",
                   value_to_variation |-> (0 :> "plot" @@ 1 :> "track")]]

\* Category 2, in the shape of CAT02 with the Compound and RepetitiveGroupFX
\* items of CAT34/CAT62: one UAP, no discriminator, no mandatory item.
Cat2 ==
    [cat |-> 2,
     items |-> <<
        FixedDef("000", "Optional", <<Element("MT", 8)>>),
        BlankDef("050", "Repetitive", "Optional"),
        GroupDef("070", "RepetitiveGroup", "Optional",
                 <<Element("A", 1), Element("IDENT", 5), Element("COUNTER", 10)>>),
        CompoundDef("290", "Optional",
           << SubItem("TRK", <<Element("TRK", 8)>>),
              SubItem("-", << >>),
              SubItem("PSR", <<Element("ANT", 1), Element("CHAB", 2), Element("OVL", 1),
                               Element("MSC", 1), Spare(3)>>),
              SubItem("SSR", <<Element("SSR", 8)>>),
              SubItem("MDS", <<Element("MDS", 8)>>),
              SubItem("ADS", <<Element("ADS", 16)>>),
              SubItem("ES",  <<Element("ES", 8)>>),
              SubItem("VDL", <<Element("VDL", 8)>>) >>),
        GroupDef("510", "RepetitiveGroupFX", "Optional",
                 <<Element("IDENT", 8), Element("TRACK", 15)>>),
        BlankDef("SP", "SP", "Optional") >>,
     uap_variations |->
        [default |-> <<"000", "050", "070", "290", "510", "SP", "-", "rfs">>],
     default_variation |-> "default",
     uap_case |-> NoCase]

\* Category 1 again, as a schema registered in place of Cat1: the same items
\* and UAPs, with I040 mandatory as well, I020/SSRPSR as the discriminator
\* and no entry for its values 2 and 3.
Cat1Alt ==
    [Cat1 EXCEPT !.items[3].presence = "Mandatory",
                 !.uap_case =
        [has_value |-> TRUE, item_id |-> "020", field |-> "SSRPSR",
         value_to_variation |-> (0 :> "plot" @@ 1 :> "track")]]

CatDefs == {Cat1, Cat1Alt, Cat2}

CatOf(n) == IF n = 1 THEN Cat1 ELSE Cat2

\* ------------------------------------------------------------------------
\*  Inputs of the calls: records handed to encode, buffers handed to decode
\* ------------------------------------------------------------------------

MaxItems == 2

MaxRecs == 2

MaxRawLen == 3

MaxCut == 9

DefOf(cat, id) == cat.items[ItemsFind(cat, id)]

Fields(cat, id, f) == [NewItem(DefOf(cat, id)) EXCEPT !.fields = f]

Reps(cat, id, r) == [NewItem(DefOf(cat, id)) EXCEPT !.repetitions = r]

Groups(cat, id, g) == [NewItem(DefOf(cat, id)) EXCEPT !.group_repetitions = g]

Raw(cat, id, b) == [NewItem(DefOf(cat, id)) EXCEPT !.raw_bytes = b]

Subs(cat, id, m) == [NewItem(DefOf(cat, id)) EXCEPT !.compound_sub_fields = m]

Oct1(typ, ssrpsr) ==
    [TYP |-> typ, SIM |-> 0, SSRPSR |-> ssrpsr, ANT |-> 0, SPI |-> 0, RAB |-> 1]

Oct2(tst, ds) == [TST |-> tst, DS1DS2 |-> ds, ME |-> 0, MI |-> 0]

\* The values a caller puts under item id of category n.
Values(n, id) ==
    IF n = 1 THEN
       CASE id = "010" -> {Fields(Cat1, id, [SAC |-> 5, SIC |-> 18])}
         [] id = "020" -> {Fields(Cat1, id, Oct1(0, 1)),
                           Fields(Cat1, id, Oct1(1, 0)),
                           Fields(Cat1, id, Oct1(0, 0) @@ Oct2(0, 0)),
                           Fields(Cat1, id, Oct1(1, 3) @@ Oct2(1, 2))}
         [] id = "040" -> {Fields(Cat1, id, [RHO |-> 258, THETA |-> 43981])}
         [] id = "161" -> {Fields(Cat1, id, [TRKNB |-> 2748])}
         [] id = "200" -> {Fields(Cat1, id, [GSP |-> 513])}
         [] id = "SP"  -> {Raw(Cat1, id, << >>), Raw(Cat1, id, <<171, 1>>)}
    ELSE
       CASE id = "000" -> {Fields(Cat2, id, [MT |-> 1])}
         [] id = "050" -> {Reps(Cat2, id, << >>), Reps(Cat2, id, <<10>>),
                           Reps(Cat2, id, <<10, 127>>)}
         [] id = "070" -> {Groups(Cat2, id, << >>),
                           Groups(Cat2, id, <<[A |-> 0, IDENT |-> 1, COUNTER |-> 50]>>),
                           Groups(Cat2, id, <<[A |-> 0, IDENT |-> 1, COUNTER |-> 50],
                                              [A |-> 1, IDENT |-> 2, COUNTER |-> 75]>>)}
         [] id = "290" -> {Subs(Cat2, id, EmptyMap),
                           Subs(Cat2, id, [PSR |-> [ANT |-> 0, CHAB |-> 1, OVL |-> 0, MSC |-> 0]]),
                           Subs(Cat2, id, [TRK |-> [TRK |-> 7], VDL |-> [VDL |-> 255]])}
         [] id = "510" -> {Groups(Cat2, id, << >>),
                           Groups(Cat2, id, <<[IDENT |-> 3, TRACK |-> 300]>>),
                           Groups(Cat2, id, <<[IDENT |-> 3, TRACK |-> 300],
                                              [IDENT |-> 0, TRACK |-> 32767]>>)}
         [] id = "SP"  -> {Raw(Cat2, id, << >>), Raw(Cat2, id, <<171, 1>>)}

Rec(items, var) == [items |-> items, uap_variation |-> var, valid |-> TRUE, error |-> << >>]

UapIds(cat, var) == {cat.uap_variations[var][i] : i \in 1..Len(cat.uap_variations[var])}
                    \ {"-", "rfs"}

\* The item maps over the ids S with values from Values
ItemMaps(n, S) ==
    {f \in [S -> UNION {Values(n, id) : id \in S}] : \A id \in S : f[id] \in Values(n, id)}

\* Records of category n: at most MaxItems items of one UAP variation.
Records(n) ==
    UNION {UNION {{Rec(f, var) : f \in ItemMaps(n, S)} :
                    S \in {T \in SUBSET UapIds(CatOf(n), var) : Cardinality(T) <= MaxItems}} :
             var \in DOMAIN CatOf(n).uap_variations}

\* Records a schema-aware caller would not build: an entry under a sentinel
\* id, an unset or unknown variation, a missing field, a value wider than its
\* element, an SP payload of 254 and of 255 bytes.
OddRecords(n) ==
    IF n = 1 THEN
       {Rec([rfs |-> Raw(Cat1, "SP", <<9>>)] @@ ("010" :> Fields(Cat1, "010", [SAC |-> 5, SIC |-> 18])), "plot"),
        Rec(("-" :> Fields(Cat1, "010", [SAC |-> 1, SIC |-> 2])), "track"),
        Rec(("010" :> Fields(Cat1, "010", [SAC |-> 5, SIC |-> 18])), ""),
        Rec(("010" :> Fields(Cat1, "010", [SAC |-> 5, SIC |-> 18])), "nope"),
        Rec(("010" :> Fields(Cat1, "010", [SAC |-> 5])), "plot"),
        Rec(("010" :> Fields(Cat1, "010", [SAC |-> 300, SIC |-> 18])), "plot"),
        Rec(("020" :> Fields(Cat1, "020", Oct2(1, 1))), "plot")}
    ELSE
       {Rec([rfs |-> Fields(Cat2, "000", [MT |-> 1])], "default"),
        Rec(("-" :> Raw(Cat2, "SP", <<9>>)) @@ ("000" :> Fields(Cat2, "000", [MT |-> 1])), "default"),
        Rec(("050" :> Reps(Cat2, "050", <<200>>)), "default"),
        Rec([SP |-> Raw(Cat2, "SP", [i \in 1..254 |-> i])], "default"),
        Rec([SP |-> Raw(Cat2, "SP", [i \in 1..255 |-> i])], "default")}

\* A few records for lists of more than one record.
FewRecords(n) ==
    IF n = 1 THEN
       {Rec(("010" :> Fields(Cat1, "010", [SAC |-> 5, SIC |-> 18]))
            @@ ("020" :> Fields(Cat1, "020", Oct1(0, 1))), "plot"),
        Rec(("020" :> Fields(Cat1, "020", Oct1(1, 0)))
            @@ ("161" :> Fields(Cat1, "161", [TRKNB |-> 2748])), "track"),
        Rec(("010" :> Fields(Cat1, "010", [SAC |-> 5, SIC |-> 18]))
            @@ ("040" :> Fields(Cat1, "040", [RHO |-> 258, THETA |-> 43981])), "plot")}
    ELSE
       {Rec(("000" :> Fields(Cat2, "000", [MT |-> 1])), "default"),
        Rec(("050" :> Reps(Cat2, "050", <<10, 127>>)), "default")}

RECURSIVE SeqsUpTo(_, _)
SeqsUpTo(S, k) ==
    IF k = 0 THEN {<< >>}
    ELSE LET shorter == SeqsUpTo(S, k - 1)
         IN  shorter \cup {Append(q, x) : q \in shorter, x \in S}

\* A list of records whose encoding is larger than a block can be: 256 records
\* of 256 bytes each (one FSPEC byte, an SP item of 1 + 254 bytes).
BulkRecord == Rec([SP |-> Raw(Cat2, "SP", [i \in 1..254 |-> 0])], "default")

BulkLists == {[i \in 1..256 |-> BulkRecord]}

\* What a caller hands to encode(cat_num, records).
EncodeInputs ==
    UNION {{[num |-> n, recs |-> <<r>>] : r \in Records(n) \cup OddRecords(n)}
           \cup {[num |-> n, recs |-> q] : q \in SeqsUpTo(FewRecords(n), MaxRecs)} :
             n \in {1, 2}}
    \cup {[num |-> 2, recs |-> q] : q \in BulkLists}
    \cup {[num |-> 1, recs |-> <<r>>] : r \in FewRecords(2)}

RawBytes == {0, 1, 2, 64, 129}

RawPayloads == SeqsUpTo(RawBytes, MaxRawLen)

Header(c, len) == <<c, len \div 256, len % 256>>

\* The frame of testDecodePlot: CAT 1, LEN 7, FSPEC C0, I010 05 12, I020 10
PlotFrame == <<1, 0, 7, 192, 5, 18, 16>>

\* Buffers a caller hands to decode that no encode produced: a header with a
\* LEN of 2, of the payload size less one, exact, and plus one; buffers
\* shorter than a header; and the frame of testDecodePlot.
RawBuffers ==
    UNION {{Header(c, len) \o p : c \in {1, 2}, len \in {2, 3 + Len(p)}} : p \in RawPayloads}
    \cup UNION {{Header(c, 2 + Len(p)) \o p : c \in {1, 2}} : p \in RawPayloads \ {<< >>}}
    \cup UNION {{Header(c, 4 + Len(p)) \o p : c \in {1, 2}} : p \in SeqsUpTo(RawBytes, 1)}
    \cup {<< >>, <<1>>, <<1, 0>>, Header(3, 3), Header(3, 4) \o <<0>>}
    \cup {PlotFrame}

\* The first k bytes of an encoded block, its LEN rewritten to k when fix.
Cut(bytes, k, fix) ==
    IF fix /\ k >= 3 THEN Header(bytes[1], k) \o SubSeq(bytes, 4, k)
    ELSE SubSeq(bytes, 1, k)

\* ------------------------------------------------------------------------
\*  The codec as a state machine: one action per call of the public API
\* ------------------------------------------------------------------------

VARIABLES
    cats_,   \* Codec::cats_, the category registry
    pc,      \* what the caller did last: "idle", "encoded", "decoded",
             \* "reencoded" (encode of a decoded block), "redecoded"
    num,     \* the category number handed to the last encode
    recs,    \* the records handed to the last encode
    wire,    \* what the last encode returned or threw: [exc, bytes]
    origin,  \* where the decoded buffer came from: "raw", "wire", "cut"
    buf,     \* the buffer handed to the last decode
    res,     \* what the last decode returned or threw: [exc, block]
    first    \* the block the re-encoded records came from

\* Step 2 of encodeRecord and step 1 of decodeRecord on their own
VARIABLES
    present,      \* std::vector<bool> present of encodeRecord
    fspec_bytes,  \* fspec_bytes of encodeRecord
    fspec_read,   \* fspec of decodeRecord once its FSPEC loop has ended
    fspec_pc      \* "idle", "start", "built", "read"

\* The registry on its own: registerCategory and category calls
VARIABLES
    reg_log,  \* the schemas handed to registerCategory, in call order (kept
              \* by RegistrySpec only)
    got       \* what the last category(n) call returned or threw: [n, exc, def]

\* A BitWriter and a BitReader on their own
VARIABLES
    bw,          \* the BitWriter: [buf, pos, exc]
    written,     \* the writeU calls made on bw, in order: [value, n]
    br,          \* the BitReader: [buf, pos, exc]
    sub,         \* the reader the last subReader call returned
    rd,          \* the last call on br: [op, n, pos0, exc, val], pos0 the
                 \* position before the call
    next_field,  \* the written field br is at, counted from 1
    stream_pc    \* "idle", "writing", "written", "reading"

\* Threads that share the codec, each inside at most one decode or encode
VARIABLES
    calls  \* per thread, the call it is in: where it is (pc: "idle",
           \* "called", "looping", "done"), its arguments, its locals (pos,
           \* block, bytes) and what it returned or threw

\* encodeItem and decodeItem on their own
VARIABLES
    item_st  \* one item and what was done with it: where it is (pc: "idle",
             \* "start", "encoded", "decoded"), its schema def, the value val
             \* handed to encodeItem and what that returned (enc), the buffer
             \* buf handed to decodeItem and what that returned (dec)

codecVars == <<pc, num, recs, wire, origin, buf, res, first>>

fspecVars == <<present, fspec_bytes, fspec_read, fspec_pc>>

regVars == <<reg_log, got>>

streamVars == <<bw, written, br, sub, rd, next_field, stream_pc>>

\* The variables the decode and encode calls of Spec leave alone
sideVars == <<fspecVars, regVars, streamVars, calls, item_st>>

vars == <<cats_, codecVars, sideVars>>

NoWire == [exc |-> NoExc, bytes |-> << >>]

NoRes == [exc |-> NoExc, block |-> NewBlock]

\* No call of the codec has been made.
CodecIdle ==
    /\ pc = "idle"
    /\ num = 0
    /\ recs = << >>
    /\ wire = NoWire
    /\ origin = ""
    /\ buf = << >>
    /\ res = NoRes
    /\ first = NewBlock

\* No FSPEC is being built on its own.
FspecIdle ==
    /\ present = << >>
    /\ fspec_bytes = << >>
    /\ fspec_read = << >>
    /\ fspec_pc = "idle"

NoGot == [n |-> 0, exc |-> NoExc, def |-> << >>]

\* No category(n) call has been made and no registration is on record.
RegistryIdle ==
    /\ reg_log = << >>
    /\ got = NoGot

NoRead == [op |-> "", n |-> 0, pos0 |-> 0, exc |-> NoExc, val |-> U64(0)]

\* No bit stream is in use on its own.
StreamIdle ==
    /\ bw = BitWriter
    /\ written = << >>
    /\ br = BitReader(<< >>)
    /\ sub = BitReader(<< >>)
    /\ rd = NoRead
    /\ next_field = 0
    /\ stream_pc = "idle"

MaxThreads == 2

Threads == 1..MaxThreads

\* A thread that is in no call. shared is the registry as it was when the
\* call began, overlapped tells whether another thread was inside its
\* record loop when the call ended, and turns counts the bodies of the
\* record loop the call has run: they are kept for the comparison with the
\* call run alone and for the count of iterations, the code has none of them.
\* at, where a call carries it, holds the outcomes of decodeRecord on the
\* suffixes of its payload.
NoCall ==
    [pc |-> "idle", kind |-> "", buf |-> << >>, num |-> 0, recs |-> << >>,
     pos |-> 0, block |-> NewBlock, bytes |-> << >>, exc |-> NoExc,
     shared |-> EmptyMap, overlapped |-> FALSE, turns |-> 0, at |-> << >>]

\* No thread is inside a call.
CallsIdle == calls = [t \in Threads |-> NoCall]

NoItem ==
    [pc |-> "idle", def |-> BlankDef("", "", ""), val |-> NewItem(BlankDef("", "", "")),
     enc |-> [exc |-> NoExc, bytes |-> << >>], from |-> "", buf |-> << >>,
     dec |-> [exc |-> NoExc, consumed |-> 0, item |-> NewItem(BlankDef("", "", ""))]]

\* No item is being encoded or decoded on its own.
ItemIdle == item_st = NoItem

Init ==
    /\ cats_ = EmptyMap
    /\ FspecIdle
    /\ RegistryIdle
    /\ CallsIdle
    /\ ItemIdle
    /\ StreamIdle
    /\ pc = "idle"
    /\ num = 0
    /\ recs = << >>
    /\ wire = NoWire
    /\ origin = ""
    /\ buf = << >>
    /\ res = NoRes
    /\ first = NewBlock

\* A registerCategory that keeps the schema already stored under the number
\* (an insert instead of an assignment).
registerCategoryInsert(cat) ==
    /\ pc = "idle"
    /\ cats_' = IF cat.cat \in DOMAIN cats_ THEN cats_ ELSE MapPut(cats_, cat.cat, cat)
    /\ UNCHANGED <<pc, num, recs, wire, origin, buf, res, first>>

\* Codec::registerCategory(cat): cats_[cat.cat] = cat
registerCategory(cat) ==
    /\ pc = "idle"
    /\ cats_' = MapPut(cats_, cat.cat, cat)
    /\ UNCHANGED <<pc, num, recs, wire, origin, buf, res, first>>

\* bytes = codec.encode(in.num, in.recs)
Encode(in) ==
    /\ pc = "idle"
    /\ pc' = "encoded"
    /\ num' = in.num
    /\ recs' = in.recs
    /\ wire' = encode(cats_, in.num, in.recs)
    /\ UNCHANGED <<cats_, origin, buf, res, first>>

\* block = codec.decode(b) for a buffer b
DecodeBuffer(b, from) ==
    /\ buf' = b
    /\ origin' = from
    /\ res' = decode(cats_, b)
    /\ pc' = "decoded"
    /\ UNCHANGED <<cats_, num, recs, wire, first>>

DecodeRaw ==
    \E b \in RawBuffers :
       pc = "idle" /\ DecodeBuffer(b, "raw") /\ UNCHANGED sideVars

\* decode of exactly the bytes encode returned
DecodeWire ==
    /\ pc = "encoded" /\ wire.exc = NoExc /\ DecodeBuffer(wire.bytes, "wire")
    /\ UNCHANGED sideVars

\* decode of a truncated copy of the bytes encode returned
DecodeCut ==
    \E k \in 0..MaxCut, fix \in BOOLEAN :
       /\ pc = "encoded" /\ wire.exc = NoExc /\ k < Len(wire.bytes)
       /\ DecodeBuffer(Cut(wire.bytes, k, fix), "cut")
       /\ UNCHANGED sideVars

\* bytes = codec.encode(block.cat, block.records) for the block just decoded
Reencode ==
    /\ pc = "decoded" /\ res.exc = NoExc /\ res.block.valid
    /\ pc' = "reencoded"
    /\ first' = res.block
    /\ num' = res.block.cat
    /\ recs' = res.block.records
    /\ wire' = encode(cats_, res.block.cat, res.block.records)
    /\ UNCHANGED <<cats_, origin, buf, res, sideVars>>

\* decode of the bytes the re-encode returned
Redecode ==
    /\ pc = "reencoded" /\ wire.exc = NoExc
    /\ buf' = wire.bytes
    /\ res' = decode(cats_, wire.bytes)
    /\ pc' = "redecoded"
    /\ UNCHANGED <<cats_, num, recs, wire, origin, first, sideVars>>

\* The caller drops the results and is ready for the next call.
Return ==
    /\ pc # "idle"
    /\ pc' = "idle"
    /\ num' = 0 /\ recs' = << >> /\ wire' = NoWire /\ origin' = ""
    /\ buf' = << >> /\ res' = NoRes /\ first' = NewBlock
    /\ UNCHANGED <<cats_, sideVars>>

Register == \E cat \in CatDefs : registerCategory(cat) /\ UNCHANGED sideVars

EncodeCall == \E in \in EncodeInputs : Encode(in) /\ UNCHANGED sideVars

Next ==
    \/ Register
    \/ EncodeCall
    \/ DecodeRaw
    \/ DecodeWire
    \/ DecodeCut
    \/ Reencode
    \/ Redecode
    \/ Return

Spec == Init /\ [][Next]_vars

\* ------------------------------------------------------------------------
\*  The FSPEC on its own: built by encodeRecord from a presence vector, then
\*  read by decodeRecord from the front of a record
\* ------------------------------------------------------------------------

MaxSlots == 15

\* The presence vectors of a UAP of at most MaxSlots slots
PresenceVectors == UNION {[1..n -> BOOLEAN] : n \in 0..MaxSlots}

\* What follows the FSPEC in the record: nothing, or item bytes
FspecTails == {<< >>, <<255>>, <<129, 0>>}

FspecInit ==
    /\ cats_ = EmptyMap
    /\ CodecIdle
    /\ RegistryIdle
    /\ CallsIdle
    /\ ItemIdle
    /\ StreamIdle
    /\ present \in PresenceVectors
    /\ fspec_bytes = << >>
    /\ fspec_read = << >>
    /\ fspec_pc = "start"

\* Codec.cpp 627-649: last_fspec, then the FSPEC octets
BuildFspec ==
    /\ fspec_pc = "start"
    /\ fspec_bytes' = buildFspec(present)
    /\ fspec_pc' = "built"
    /\ UNCHANGED <<cats_, codecVars, regVars, streamVars, calls, item_st, present, fspec_read>>

\* Codec.cpp 299-306: the FSPEC loop of decodeRecord over the record bytes
ReadFspec ==
    \E rest \in FspecTails :
       /\ fspec_pc = "built"
       /\ fspec_read' = readFspec(fspec_bytes \o rest, 0, << >>).fspec
       /\ fspec_pc' = "read"
       /\ UNCHANGED <<cats_, codecVars, regVars, streamVars, calls, item_st, present, fspec_bytes>>

FspecNext == BuildFspec \/ ReadFspec

FspecSpec == FspecInit /\ [][FspecNext]_vars

\* ------------------------------------------------------------------------
\*  The registry on its own: any sequence of registerCategory calls, with
\*  category(n) calls in between
\* ------------------------------------------------------------------------

MaxCalls == 3

\* The category numbers looked up: those of the schemas, and one of no schema
CatNumbers == {1, 2, 3}

\* codec.registerCategory(cat); the result of an earlier category(n) is dropped
RegisterLogged ==
    \E cat \in CatDefs :
       /\ Len(reg_log) < MaxCalls
       /\ registerCategory(cat)
       /\ reg_log' = Append(reg_log, cat)
       /\ got' = NoGot
       /\ UNCHANGED <<fspecVars, streamVars, calls, item_st>>

\* codec.category(n)
Lookup ==
    \E n \in CatNumbers :
       /\ got' = [n |-> n, exc |-> category(cats_, n).exc, def |-> category(cats_, n).def]
       /\ UNCHANGED <<cats_, codecVars, fspecVars, streamVars, calls, item_st, reg_log>>

RegistryNext == RegisterLogged \/ Lookup

RegistrySpec == Init /\ [][RegistryNext]_vars

\* ------------------------------------------------------------------------
\*  The bit stream on its own, 1: a BitWriter writes fields, a BitReader over
\*  its buffer skips or reads them in turn
\* ------------------------------------------------------------------------

MaxPrefix == 1

\* The values written: no bit, every bit, the top and the bottom bit, and
\* 0xA5A55A5A1234F00F
Words == {U64(0), <<65535, 65535, 65535, 65535>>, <<32768, 0, 0, 1>>,
          <<42405, 23130, 4660, 61455>>}

\* The widths of the value written last: every width writeU accepts
Widths == 1..64

\* The fields written before it
PrefixWords == {<<65535, 65535, 65535, 65535>>, <<42405, 23130, 4660, 61455>>}

PrefixWidths == {1, 3, 7, 8, 9, 16, 33, 64}

\* What of the codec, the FSPEC and the registry a bit stream leaves alone
notStream == <<cats_, codecVars, fspecVars, regVars, calls, item_st>>

StreamInit ==
    /\ cats_ = EmptyMap
    /\ CodecIdle
    /\ FspecIdle
    /\ RegistryIdle
    /\ CallsIdle
    /\ ItemIdle
    /\ bw = BitWriter
    /\ written = << >>
    /\ br = BitReader(<< >>)
    /\ sub = BitReader(<< >>)
    /\ rd = NoRead
    /\ next_field = 0
    /\ stream_pc = "writing"

\* bw.writeU(v, n) for one of at most MaxPrefix fields before the last
WritePrefix ==
    \E v \in PrefixWords, n \in PrefixWidths :
       /\ stream_pc = "writing" /\ Len(written) < MaxPrefix
       /\ bw' = writeU(bw, v, n)
       /\ written' = Append(written, [value |-> v, n |-> n])
       /\ UNCHANGED <<notStream, br, sub, rd, next_field, stream_pc>>

\* bw.writeU(v, n) for the last field
WriteValue ==
    \E v \in Words, n \in Widths :
       /\ stream_pc = "writing"
       /\ bw' = writeU(bw, v, n)
       /\ written' = Append(written, [value |-> v, n |-> n])
       /\ stream_pc' = "written"
       /\ UNCHANGED <<notStream, br, sub, rd, next_field>>

\* BitReader br{bw.buffer()}
TakeBuffer ==
    /\ stream_pc = "written"
    /\ br' = BitReader(bw.buf)
    /\ next_field' = 1
    /\ stream_pc' = "reading"
    /\ UNCHANGED <<notStream, bw, written, sub, rd>>

\* The reader after a call: an exception has left the call and the reader is
\* as the call left it.
Caught(r) == [r EXCEPT !.exc = NoExc]

\* br.skip(n) for the width n of the field br is at
SkipField ==
    /\ stream_pc = "reading" /\ next_field <= Len(written)
    /\ br' = Caught(skip(br, written[next_field].n))
    /\ rd' = [op |-> "skip", n |-> written[next_field].n, pos0 |-> br.pos,
              exc |-> skip(br, written[next_field].n).exc, val |-> U64(0)]
    /\ next_field' = next_field + 1
    /\ UNCHANGED <<notStream, bw, written, sub, stream_pc>>

\* br.readU(n) for the width n of the field br is at
ReadField ==
    /\ stream_pc = "reading" /\ next_field <= Len(written)
    /\ br' = Caught(readU(br, written[next_field].n).br)
    /\ rd' = [op |-> "readU", n |-> written[next_field].n, pos0 |-> br.pos,
              exc |-> readU(br, written[next_field].n).br.exc,
              val |-> readU(br, written[next_field].n).val]
    /\ next_field' = next_field + 1
    /\ UNCHANGED <<notStream, bw, written, sub, stream_pc>>

StreamNext == WritePrefix \/ WriteValue \/ TakeBuffer \/ SkipField \/ ReadField

StreamSpec == StreamInit /\ [][StreamNext]_vars

\* ------------------------------------------------------------------------
\*  The bit stream on its own, 2: any sequence of readU, skip, alignToByte
\*  and subReader calls on a BitReader
\* ------------------------------------------------------------------------

MaxBytes == 9

\* The buffers read: 0 to MaxBytes bytes
ReaderBuffers == {[i \in 1..k |-> (i * 37) % 256] : k \in 0..MaxBytes}

\* The bit counts handed to readU and skip
BitCounts == {0, 1, 3, 8, 13, 64, 65}

\* The byte counts handed to subReader; the last is more than any buffer has
ByteCounts == {0, 1, 2, MaxBytes + 1}

ReaderInit ==
    /\ cats_ = EmptyMap
    /\ CodecIdle
    /\ FspecIdle
    /\ RegistryIdle
    /\ CallsIdle
    /\ ItemIdle
    /\ bw = BitWriter
    /\ written = << >>
    /\ br \in {BitReader(b) : b \in ReaderBuffers}
    /\ sub = BitReader(<< >>)
    /\ rd = NoRead
    /\ next_field = 0
    /\ stream_pc = "reading"

\* br.readU(n)
ReadU ==
    \E n \in BitCounts :
       /\ br' = Caught(readU(br, n).br)
       /\ rd' = [op |-> "readU", n |-> n, pos0 |-> br.pos,
                 exc |-> readU(br, n).br.exc, val |-> readU(br, n).val]
       /\ UNCHANGED <<notStream, bw, written, sub, next_field, stream_pc>>

\* br.skip(n)
Skip ==
    \E n \in BitCounts :
       /\ br' = Caught(skip(br, n))
       /\ rd' = [op |-> "skip", n |-> n, pos0 |-> br.pos,
                 exc |-> skip(br, n).exc, val |-> U64(0)]
       /\ UNCHANGED <<notStream, bw, written, sub, next_field, stream_pc>>

\* br.alignToByte()
AlignToByte ==
    /\ br' = alignToByte(br)
    /\ rd' = [op |-> "alignToByte", n |-> 0, pos0 |-> br.pos,
              exc |-> NoExc, val |-> U64(0)]
    /\ UNCHANGED <<notStream, bw, written, sub, next_field, stream_pc>>

\* sub = br.subReader(n_bytes)
SubReader ==
    \E n_bytes \in ByteCounts :
       /\ br' = Caught(subReader(br, n_bytes).br)
       /\ sub' = subReader(br, n_bytes).sub
       /\ rd' = [op |-> "subReader", n |-> n_bytes, pos0 |-> br.pos,
                 exc |-> subReader(br, n_bytes).br.exc, val |-> U64(0)]
       /\ UNCHANGED <<notStream, bw, written, next_field, stream_pc>>

\* The caller goes on with the reader that subReader returned.
UseSub ==
    /\ rd.op = "subReader" /\ rd.exc = NoExc
    /\ br' = sub
    /\ rd' = NoRead
    /\ UNCHANGED <<notStream, bw, written, sub, next_field, stream_pc>>

ReaderNext == ReadU \/ Skip \/ AlignToByte \/ SubReader \/ UseSub

ReaderSpec == ReaderInit /\ [][ReaderNext]_vars

\* ------------------------------------------------------------------------
\*  Threads that share one codec: each decode and encode call is taken a
\*  step at a time (its entry up to the registry lookup, then one turn of
\*  its record loop per step), the steps of the threads in any order;
\*  registerCategory is called only while no thread is inside a call
\* ------------------------------------------------------------------------

\* The buffers the threads decode: two plots in one block, a block of
\* category 2, a block whose record is cut short, and a block of a category
\* that has no schema.
ThreadBuffers ==
    {Header(1, 11) \o <<192, 5, 18, 16>> \o <<192, 5, 18, 16>>,
     Header(2, 5) \o <<128, 7>>,
     Header(1, 5) \o <<192, 5>>,
     Header(3, 3)}

\* What the threads encode: two records of category 1, a list whose second
\* record names no UAP variation of the schema, and an empty list under a
\* category that has no schema.
ThreadRecords ==
    {[num |-> 1,
      recs |-> <<Rec(("010" :> Fields(Cat1, "010", [SAC |-> 5, SIC |-> 18]))
                     @@ ("020" :> Fields(Cat1, "020", Oct1(0, 1))), "plot"),
                 Rec(("020" :> Fields(Cat1, "020", Oct1(1, 0)))
                     @@ ("161" :> Fields(Cat1, "161", [TRKNB |-> 2748])), "track")>>],
     [num |-> 1,
      recs |-> <<Rec(("010" :> Fields(Cat1, "010", [SAC |-> 5, SIC |-> 18])), "plot"),
                 Rec(("010" :> Fields(Cat1, "010", [SAC |-> 5, SIC |-> 18])), "nope")>>],
     [num |-> 3, recs |-> << >>]}

\* A lookup that stores a default-constructed schema under a number it does
\* not find, as cats_[n] would.
findInserting(cats, n) ==
    [cats |-> IF n \in DOMAIN cats THEN cats
              ELSE MapPut(cats, n, [cat |-> 0, items |-> << >>, uap_variations |-> EmptyMap,
                                    default_variation |-> "", uap_case |-> NoCase]),
     found |-> n \in DOMAIN cats]

\* cats_.find(n) in a const member function: the registry after the lookup
\* and whether n has a schema
find(cats, n) == [cats |-> cats, found |-> n \in DOMAIN cats]

\* Codec::decode up to the record loop: the size and LEN checks and the
\* lookup. done tells that decode has returned block.
decodeEnter(cats, b) ==
    IF Len(b) < 3
    THEN [cats |-> cats, done |-> TRUE,
          block |-> [NewBlock EXCEPT !.valid = FALSE,
                       !.error = <<"Buffer too short for Data Block header (need >=3 bytes)">>]]
    ELSE LET hdr == [NewBlock EXCEPT !.cat = b[1],
                                     !.length = (b[2] * 256 + b[3]) % 65536]
             Found(f) ==
                 IF ~f.found
                 THEN [cats |-> f.cats, done |-> TRUE,
                       block |-> [hdr EXCEPT !.valid = FALSE,
                                    !.error = <<"Category ", ToString(hdr.cat), " not registered">>]]
                 ELSE [cats |-> f.cats, done |-> FALSE, block |-> hdr]
         IN  IF hdr.length < 3 \/ hdr.length > Len(b)
             THEN [cats |-> cats, done |-> TRUE,
                   block |-> [hdr EXCEPT !.valid = FALSE,
                                !.error = <<"Data Block LEN field (", ToString(hdr.length),
                                            ") is invalid">>]]
             ELSE Found(find(cats, hdr.cat))

\* What a turn of the record loop of Codec::decode does with the outcome r
\* of its decodeRecord: the catch, the push, the guard on consumed and
\* pos += consumed. done tells that the loop was left by a break.
recordTurn(r, at, block) ==
    LET Pushed(block1, bytes_consumed) ==
            IF bytes_consumed = 0
            THEN [done |-> TRUE, pos |-> at,
                  block |-> [block1 EXCEPT !.valid = FALSE,
                     !.error = <<"Infinite loop guard: no bytes consumed decoding record">>]]
            ELSE [done |-> FALSE, pos |-> at + bytes_consumed, block |-> block1]
    IN  IF r.exc # NoExc
        THEN [done |-> TRUE, pos |-> at, block |-> catchRecordError(block, r.exc)]
        ELSE Pushed([block EXCEPT !.records = Append(@, r.rec)], r.bytes_consumed)

\* One turn of the record loop of Codec::decode, entered with pos <
\* payload.size(): decodeRecord on payload.subspan(pos) inside the try, then
\* the rest of the turn.
decodeIterate(payload, cat, at, block) ==
    LET Record(r) == recordTurn(r, at, block)
    IN  Record(decodeRecord(SubSeq(payload, at + 1, Len(payload)), cat))

\* decodeRecord is a function of its bytes and of the schema alone (it is a
\* const member that reads nothing else). Its values on the suffixes of the
\* payload that decode(b) would hand it, one for every cursor 0 ..
\* payload.size() - 1; none when decode(b) returns before its record loop.
recordsFrom(cats, b) ==
    LET On(payload, cat) ==
            [p \in 1..Len(payload) |-> decodeRecord(SubSeq(payload, p, Len(payload)), cat)]
        Entered(e) ==
            IF e.done THEN << >>
            ELSE On(payloadSpan(b, e.block.length), cats[e.block.cat])
    IN  Entered(decodeEnter(cats, b))

\* Codec::encode up to the record loop: the lookup and its throw
encodeEnter(cats, n) ==
    LET Found(f) ==
            [cats |-> f.cats, done |-> ~f.found,
             exc |-> IF f.found THEN NoExc
                     ELSE Throw("runtime_error",
                                <<"encode: Category ", ToString(n), " not registered">>)]
    IN  Found(find(cats, n))

\* One turn of the record loop of Codec::encode, for the i-th record.
\* done tells that encodeRecord threw and the exception left encode.
encodeIterate(records, cat, i, records_bytes) ==
    LET Inserted(rb) ==
            IF rb.exc # NoExc
            THEN [done |-> TRUE, exc |-> rb.exc, bytes |-> << >>]
            ELSE [done |-> FALSE, exc |-> NoExc, bytes |-> insertRecord(records_bytes, rb.bytes)]
    IN  Inserted(encodeRecord(records[i], cat))

\* What the calls of the threads leave alone
notCalls == <<codecVars, fspecVars, regVars, streamVars, item_st>>

\* The call of thread t has returned or thrown, c its state at the end.
Ended(t, c) ==
    [c EXCEPT !.pc = "done",
              !.overlapped = \E u \in Threads \ {t} : calls[u].pc = "looping"]

\* Thread t calls codec.decode(b)
CallDecode ==
    \E t \in Threads, b \in ThreadBuffers :
       /\ calls[t].pc = "idle"
       /\ calls' = [calls EXCEPT ![t] = [NoCall EXCEPT !.pc = "called", !.kind = "decode",
                                                       !.buf = b, !.shared = cats_]]
       /\ UNCHANGED <<cats_, notCalls>>

\* Thread t calls codec.encode(in.num, in.recs)
CallEncode ==
    \E t \in Threads, in \in ThreadRecords :
       /\ calls[t].pc = "idle"
       /\ calls' = [calls EXCEPT ![t] = [NoCall EXCEPT !.pc = "called", !.kind = "encode",
                                                       !.num = in.num, !.recs = in.recs,
                                                       !.shared = cats_]]
       /\ UNCHANGED <<cats_, notCalls>>

\* Codec.cpp 382-409 in thread t
DecodeEnter ==
    \E t \in Threads :
       LET c == calls[t]
           Entered(e) ==
               /\ cats_' = e.cats
               /\ calls' = [calls EXCEPT ![t] =
                              IF e.done THEN Ended(t, [c EXCEPT !.block = e.block])
                              ELSE [c EXCEPT !.pc = "looping", !.block = e.block]]
       IN  /\ c.pc = "called" /\ c.kind = "decode"
           /\ Entered(decodeEnter(cats_, c.buf))
           /\ UNCHANGED notCalls

\* Codec.cpp 411-429 in thread t: the loop test and one turn of the loop,
\* or the return once the loop has ended. cat is a reference to the schema
\* stored in cats_.
DecodeStep ==
    \E t \in Threads :
       LET c == calls[t]
           After(it) ==
               IF it.done
               THEN Ended(t, [c EXCEPT !.pos = it.pos, !.block = it.block, !.turns = @ + 1])
               ELSE [c EXCEPT !.pos = it.pos, !.block = it.block, !.turns = @ + 1]
           Turn(payload) ==
               IF ~(c.pos < Len(payload)) THEN Ended(t, c)
               ELSE After(decodeIterate(payload, cats_[c.block.cat], c.pos, c.block))
       IN  /\ c.pc = "looping" /\ c.kind = "decode"
           /\ calls' = [calls EXCEPT ![t] = Turn(payloadSpan(c.buf, c.block.length))]
           /\ UNCHANGED <<cats_, notCalls>>

\* Codec.cpp 679-682 in thread t
EncodeEnter ==
    \E t \in Threads :
       LET c == calls[t]
           Entered(e) ==
               /\ cats_' = e.cats
               /\ calls' = [calls EXCEPT ![t] =
                              IF e.done THEN Ended(t, [c EXCEPT !.exc = e.exc])
                              ELSE [c EXCEPT !.pc = "looping"]]
       IN  /\ c.pc = "called" /\ c.kind = "encode"
           /\ Entered(encodeEnter(cats_, c.num))
           /\ UNCHANGED notCalls

\* Codec.cpp 685-700 in thread t: one turn of the record loop, or the
\* header and the return once every record is encoded. cat is a reference
\* to the schema stored in cats_.
EncodeStep ==
    \E t \in Threads :
       LET c == calls[t]
           After(it) ==
               IF it.done
               THEN Ended(t, [c EXCEPT !.exc = it.exc, !.bytes = it.bytes, !.turns = @ + 1])
               ELSE [c EXCEPT !.pos = c.pos + 1, !.bytes = it.bytes, !.turns = @ + 1]
       IN  /\ c.pc = "looping" /\ c.kind = "encode"
           /\ calls' = [calls EXCEPT ![t] =
                          IF c.pos = Len(c.recs)
                          THEN Ended(t, [c EXCEPT !.bytes = blockBytes(c.num, c.bytes)])
                          ELSE After(encodeIterate(c.recs, cats_[c.num], c.pos + 1, c.bytes))]
           /\ UNCHANGED <<cats_, notCalls>>

\* Thread t drops what its call returned and is ready for its next call.
ReturnCall ==
    \E t \in Threads :
       /\ calls[t].pc = "done"
       /\ calls' = [calls EXCEPT ![t] = NoCall]
       /\ UNCHANGED <<cats_, notCalls>>

\* codec.registerCategory(cat) while no thread is inside decode or encode
RegisterBetweenCalls ==
    \E cat \in CatDefs :
       /\ \A t \in Threads : calls[t].pc = "idle"
       /\ registerCategory(cat)
       /\ UNCHANGED sideVars

ThreadsNext ==
    \/ RegisterBetweenCalls
    \/ CallDecode
    \/ CallEncode
    \/ DecodeEnter
    \/ DecodeStep
    \/ EncodeEnter
    \/ EncodeStep
    \/ ReturnCall

ThreadsSpec == Init /\ [][ThreadsNext]_vars

\* ------------------------------------------------------------------------
\*  Two decode calls on buffers that go on after their declared length
\* ------------------------------------------------------------------------

\* Blocks as their headers declare them: no record, a record of an FSPEC
\* alone, a record cut inside I010, the record of testDecodePlot, and
\* headers whose LEN is less than 3 or more than the bytes that follow.
TailFrames ==
    {Header(1, 3), Header(1, 4) \o <<192>>, Header(1, 5) \o <<192, 5>>,
     PlotFrame, Header(1, 0), Header(2, 0), Header(1, 2), Header(1, 9) \o <<192, 5>>}

\* What the buffer holds after the frame
Tails == {<< >>, <<18, 16>>, <<255>>}

TailBuffers == {f \o t : f \in TailFrames, t \in Tails}

\* One of the two callers calls codec.decode(b)
CallDecodeTail ==
    \E t \in {1, 2}, b \in TailBuffers :
       /\ calls[t].pc = "idle"
       /\ calls' = [calls EXCEPT ![t] = [NoCall EXCEPT !.pc = "called", !.kind = "decode",
                                                       !.buf = b, !.shared = cats_]]
       /\ UNCHANGED <<cats_, notCalls>>

TailNext ==
    \/ RegisterBetweenCalls
    \/ CallDecodeTail
    \/ DecodeEnter
    \/ DecodeStep
    \/ ReturnCall

TailSpec == Init /\ [][TailNext]_vars

\* ------------------------------------------------------------------------
\*  One decode call at a time, taken a step at a time, on any buffer: a
\*  call that has begun runs on until it returns (decode is synchronous
\*  code, nothing suspends it)
\* ------------------------------------------------------------------------

\* The one thread calls codec.decode(b)
CallDecodeAny ==
    \E b \in RawBuffers \cup ThreadBuffers :
       /\ calls[1].pc = "idle"
       /\ calls' = [calls EXCEPT ![1] = [NoCall EXCEPT !.pc = "called", !.kind = "decode",
                                                       !.buf = b, !.shared = cats_,
                                                       !.at = recordsFrom(cats_, b)]]
       /\ UNCHANGED <<cats_, notCalls>>

\* Codec.cpp 411-429 in the one thread: the loop test and one turn of the
\* loop, or the return once the loop has ended; the outcome of decodeRecord
\* on payload.subspan(pos) is the one the call carries.
DecodeTurn ==
    LET c == calls[1]
        After(it) ==
            IF it.done
            THEN Ended(1, [c EXCEPT !.pos = it.pos, !.block = it.block, !.turns = @ + 1])
            ELSE [c EXCEPT !.pos = it.pos, !.block = it.block, !.turns = @ + 1]
        Turn(payload) ==
            IF ~(c.pos < Len(payload)) THEN Ended(1, c)
            ELSE After(recordTurn(c.at[c.pos + 1], c.pos, c.block))
    IN  /\ c.pc = "looping" /\ c.kind = "decode"
        /\ calls' = [calls EXCEPT ![1] = Turn(payloadSpan(c.buf, c.block.length))]
        /\ UNCHANGED <<cats_, notCalls>>

LoopNext ==
    \/ RegisterBetweenCalls
    \/ CallDecodeAny
    \/ DecodeEnter
    \/ DecodeTurn
    \/ ReturnCall

\* decode is synchronous code: once called it runs on, nothing suspends it
\* between its header and its loop or between two turns of its loop.
LoopSpec ==
    Init /\ [][LoopNext]_vars /\ WF_vars(DecodeEnter) /\ WF_vars(DecodeTurn)

\* ------------------------------------------------------------------------
\*  encodeItem and decodeItem on their own: an item value is encoded and the
\*  bytes are decoded again (as they are, with bytes after them, or cut
\*  short), or a buffer no encodeItem produced is decoded
\* ------------------------------------------------------------------------

MaxItemLen == 4

MaxReps == 3

\* An Extended item of three octets, with spare bits in the first two
ExtDef3 ==
    ExtendedDef("080", "Optional",
       << [elements |-> <<Element("A", 1), Element("B", 2), Spare(1), Element("C", 3)>>],
          [elements |-> <<Element("D", 3), Spare(4)>>],
          [elements |-> <<Element("E", 7)>>] >>)

\* A RepetitiveGroup item whose group is one byte
Grp8 == GroupDef("G8", "RepetitiveGroup", "Optional",
                 <<Element("A", 3), Spare(1), Element("B", 4)>>)

\* The item schemas: one of every type but Fixed
ItemDefs ==
    {DefOf(Cat1, "020"), ExtDef3, DefOf(Cat2, "050"), DefOf(Cat2, "070"), Grp8,
     DefOf(Cat2, "510"), DefOf(Cat2, "SP"), DefOf(Cat2, "290")}

\* The maps from a part of names to vals
PartialMaps(names, vals) == UNION {[S -> vals] : S \in SUBSET names}

\* The groups a caller puts in a RepetitiveGroupFX item of IDENT(8) and
\* TRACK(15): two that fit, one without TRACK, one whose IDENT is too wide.
FxGroups ==
    {[IDENT |-> 3, TRACK |-> 300], [IDENT |-> 0, TRACK |-> 32767],
     [IDENT |-> 255], [IDENT |-> 256, TRACK |-> 1]}

\* The fields a caller puts under sub-item name of a Compound value
SubFields(name) ==
    CASE name = "PSR" -> [ANT |-> 0, CHAB |-> 1, OVL |-> 0, MSC |-> 0]
      [] name = "ADS" -> [ADS |-> 4660]
      [] name = "-"   -> [X |-> 1]
      [] OTHER        -> (name :> 7)

\* The values handed to encodeItem under the schema def: fields that are
\* missing, zero, set, or too wide for their element; lists of up to
\* MaxReps entries; any set of sub-items, an entry named "-" included.
ItemValues(def) ==
    CASE def.type = "Extended" ->
            IF def.id = "080"
            THEN {[NewItem(def) EXCEPT !.fields = f] :
                    f \in PartialMaps({"A", "C", "D", "E"}, {0, 1, 8})}
            ELSE Values(1, "020")
      [] def.type = "Repetitive" ->
            {[NewItem(def) EXCEPT !.repetitions = r] :
               r \in SeqsUpTo({0, 1, 127, 128, 300}, MaxReps)}
      [] def.type = "RepetitiveGroup" ->
            IF def.id = "G8"
            THEN {[NewItem(def) EXCEPT !.group_repetitions = g] :
                    g \in {<< >>, <<[A |-> 5, B |-> 9]>>,
                           <<[A |-> 5, B |-> 9], [A |-> 1, B |-> 0]>>}}
            ELSE Values(2, "070")
      [] def.type = "RepetitiveGroupFX" ->
            {[NewItem(def) EXCEPT !.group_repetitions = g] : g \in SeqsUpTo(FxGroups, MaxReps)}
      [] def.type = "SP" -> Values(2, "SP")
      [] def.type = "Compound" ->
            {[NewItem(def) EXCEPT !.compound_sub_fields = [n \in S |-> SubFields(n)]] :
               S \in SUBSET {"TRK", "-", "PSR", "SSR", "MDS", "ADS", "ES", "VDL"}}

\* The bytes of the buffers no encodeItem produced: FX set and clear, a
\* count or length of 0 to 3, PSF bits of a used and of an unused slot
ItemBytes == {0, 1, 2, 3, 64, 129, 255}

ItemBuffers == SeqsUpTo(ItemBytes, MaxItemLen)

\* What follows the item in the buffer handed to decodeItem
ItemTails == {<< >>, <<255>>, <<0, 1>>}

\* What of the codec, the FSPEC, the registry and the streams an item call
\* leaves alone
notItem == <<cats_, codecVars, fspecVars, regVars, streamVars, calls>>

ItemInit ==
    /\ cats_ = EmptyMap
    /\ CodecIdle
    /\ FspecIdle
    /\ RegistryIdle
    /\ CallsIdle
    /\ StreamIdle
    /\ item_st \in {[NoItem EXCEPT !.pc = "start", !.def = d, !.val = NewItem(d),
                                   !.dec.item = NewItem(d)] : d \in ItemDefs}

\* What decodeItem(def, b) left with its caller: the item on a return, the
\* exception on a throw (consumed is then as the caller initialised it, 0).
DecodedItem(def, r) ==
    IF r.exc # NoExc THEN [exc |-> r.exc, consumed |-> r.consumed, item |-> NewItem(def)]
    ELSE [exc |-> NoExc, consumed |-> r.consumed, item |-> r.item]

\* bytes = encodeItem(def, v)
EncodeItem ==
    \E v \in ItemValues(item_st.def) :
       /\ item_st.pc = "start"
       /\ item_st' = [item_st EXCEPT !.pc = "encoded", !.val = v,
                                      !.enc = encodeItem(item_st.def, v)]
       /\ UNCHANGED notItem

\* item = decodeItem(def, b, consumed)
DecodeItemBuffer(b, from) ==
    /\ item_st' = [item_st EXCEPT !.pc = "decoded", !.from = from, !.buf = b,
                                   !.dec = DecodedItem(item_st.def, decodeItem(item_st.def, b))]
    /\ UNCHANGED notItem

\* decodeItem of the bytes encodeItem returned, with or without bytes of the
\* next item after them
DecodeEncoded ==
    \E tail \in ItemTails :
       /\ item_st.pc = "encoded" /\ item_st.enc.exc = NoExc
       /\ DecodeItemBuffer(item_st.enc.bytes \o tail, "enc")

\* decodeItem of the first k bytes encodeItem returned
DecodeCutItem ==
    \E k \in 0..(Len(item_st.enc.bytes) - 1) :
       /\ item_st.pc = "encoded" /\ item_st.enc.exc = NoExc
       /\ DecodeItemBuffer(SubSeq(item_st.enc.bytes, 1, k), "cut")

\* decodeItem of a buffer no encodeItem produced
DecodeRawItem ==
    \E b \in ItemBuffers :
       /\ item_st.pc = "start"
       /\ DecodeItemBuffer(b, "raw")

ItemNext == EncodeItem \/ DecodeEncoded \/ DecodeCutItem \/ DecodeRawItem

ItemSpec == ItemInit /\ [][ItemNext]_vars

\* ------------------------------------------------------------------------
\*  Properties of decode
\* ------------------------------------------------------------------------

\* A decode call has returned (or thrown) and its result is in res.
Decoded == pc \in {"decoded", "redecoded"}

\* The big-endian LEN field of bytes 1-2 of a buffer of at least 3 bytes.
LenField(b) == b[2] * 256 + b[3]

Framed(b) == Len(b) >= 3 /\ LenField(b) >= 3 /\ LenField(b) <= Len(b)

PayloadOf(b) == SubSeq(b, 4, LenField(b))

\* decodeRecord on the payload of b from offset start.
RecordAt(b, cat, start) ==
    decodeRecord(SubSeq(PayloadOf(b), start + 1, Len(PayloadOf(b))), cat)

\* The offset in the payload of b where record k + 1 starts.
RECURSIVE StartOf(_, _, _)
StartOf(b, cat, k) ==
    IF k = 0 THEN 0
    ELSE StartOf(b, cat, k - 1) + RecordAt(b, cat, StartOf(b, cat, k - 1)).bytes_consumed

\* The exception of the first record of the payload of b, from offset pos on,
\* whose decodeRecord throws; NoExc when every record decodes.
RECURSIVE Failure(_, _, _)
Failure(b, cat, pos) ==
    IF pos >= Len(PayloadOf(b)) THEN NoExc
    ELSE IF RecordAt(b, cat, pos).exc # NoExc THEN RecordAt(b, cat, pos).exc
    ELSE IF RecordAt(b, cat, pos).bytes_consumed = 0 THEN NoExc
    ELSE Failure(b, cat, pos + RecordAt(b, cat, pos).bytes_consumed)

\* C3: decode is total. Whatever the buffer and the registry, no exception
\* leaves decode; a block with valid = FALSE carries a non-empty error; and
\* a block is valid only if the buffer is well framed, its category is
\* registered, and the block carries no error.
C3_DecodeTotal ==
    Decoded =>
       /\ res.exc = NoExc
       /\ ~res.block.valid => res.block.error # << >>
       /\ res.block.valid =>
             /\ Framed(buf)
             /\ buf[1] \in DOMAIN cats_
             /\ res.block.error = << >>

\* C3 happens: a malformed buffer was decoded, a record decoder threw, and the
\* block came back invalid with the caught message.
C3_Witness ==
    /\ Decoded /\ origin = "raw" /\ res.exc = NoExc
    /\ ~res.block.valid
    /\ res.block.error[1] = "Record decode error: "

\* C4: block framing. A buffer of fewer than 3 bytes, or one whose LEN field
\* is less than 3 or greater than the buffer size, decodes to an invalid block
\* with a framing error and no records.
C4_Framing ==
    (Decoded /\ ~Framed(buf)) =>
       /\ res.exc = NoExc
       /\ ~res.block.valid
       /\ res.block.records = << >>
       /\ IF Len(buf) < 3
          THEN res.block.error =
                  <<"Buffer too short for Data Block header (need >=3 bytes)">>
          ELSE res.block.error =
                  <<"Data Block LEN field (", ToString(LenField(buf)), ") is invalid">>

\* C4 happens: a buffer with a full header and a LEN below 3 or beyond
\* the buffer was decoded.
C4_Witness ==
    /\ Decoded /\ Len(buf) >= 3 /\ ~Framed(buf)
    /\ ~res.block.valid

\* C5: the first record-decode error stops the iteration. The records of
\* the returned block are exactly the results of decodeRecord at the successive
\* record starts, none of which threw; where they end before the payload does,
\* decodeRecord throws there, the block is invalid and carries that error, and
\* nothing after that point is decoded; where they end with the payload, the
\* block is valid.
C5_FirstErrorStops ==
    (Decoded /\ res.exc = NoExc /\ Framed(buf) /\ buf[1] \in DOMAIN cats_) =>
       LET cat == cats_[buf[1]]
           n   == Len(res.block.records)
           end == StartOf(buf, cat, n)
       IN  /\ \A k \in 1..n :
                /\ RecordAt(buf, cat, StartOf(buf, cat, k - 1)).exc = NoExc
                /\ RecordAt(buf, cat, StartOf(buf, cat, k - 1)).rec = res.block.records[k]
           /\ end <= Len(PayloadOf(buf))
           /\ IF end < Len(PayloadOf(buf))
              THEN /\ RecordAt(buf, cat, end).exc # NoExc
                   /\ ~res.block.valid
                   /\ res.block.error =
                         <<"Record decode error: ">> \o RecordAt(buf, cat, end).exc.what
              ELSE res.block.valid

\* C5 happens: a record failed after at least one record had been decoded,
\* with bytes of the payload left after the records that were decoded.
C5_Witness ==
    /\ Decoded /\ res.exc = NoExc /\ Framed(buf) /\ buf[1] \in DOMAIN cats_
    /\ ~res.block.valid
    /\ Len(res.block.records) >= 1
    /\ StartOf(buf, cats_[buf[1]], Len(res.block.records)) < Len(PayloadOf(buf))

\* C6 as stated: when an item codec fails while a record is decoded, the
\* failing record is in the block's list as an invalid record carrying the
\* failure in its error string.
C6_FailureInRecord ==
    (Decoded /\ res.exc = NoExc /\ Framed(buf) /\ buf[1] \in DOMAIN cats_
     /\ Failure(buf, cats_[buf[1]], 0) # NoExc) =>
       /\ res.block.records # << >>
       /\ ~res.block.records[Len(res.block.records)].valid
       /\ res.block.records[Len(res.block.records)].error
             = Failure(buf, cats_[buf[1]], 0).what

\* C6 as the code has it: when an item codec fails while a record is
\* decoded, decodeRecord throws; the failure is captured into the block (valid
\* = FALSE, error = "Record decode error: " + message) and the failing record
\* is not in the block's list: every listed record is valid or invalid for a
\* missing mandatory item only.
C6_FailureInBlock ==
    (Decoded /\ res.exc = NoExc /\ Framed(buf) /\ buf[1] \in DOMAIN cats_
     /\ Failure(buf, cats_[buf[1]], 0) # NoExc) =>
       /\ ~res.block.valid
       /\ res.block.error
             = <<"Record decode error: ">> \o Failure(buf, cats_[buf[1]], 0).what
       /\ \A k \in 1..Len(res.block.records) :
             /\ res.block.records[k].error # Failure(buf, cats_[buf[1]], 0).what
             /\ \/ res.block.records[k].valid
                \/ res.block.records[k].error[1] = "Mandatory item "

\* C6 happens: an item codec (a Fixed, Extended, ... item cut short) failed
\* while a record was decoded.
C6_Witness ==
    /\ Decoded /\ res.exc = NoExc /\ Framed(buf) /\ buf[1] \in DOMAIN cats_
    /\ Failure(buf, cats_[buf[1]], 0) # NoExc
    /\ Failure(buf, cats_[buf[1]], 0).what[1] = "Item "

\* C7 as stated: a record whose FSPEC runs to the end of the buffer with the
\* FX bit of its last byte set fails to decode: the block is invalid, or the
\* record is reported invalid.
C7_FspecTruncated ==
    (Decoded /\ res.exc = NoExc /\ Framed(buf) /\ buf[1] \in DOMAIN cats_
     /\ PayloadOf(buf) # << >>
     /\ \A i \in 1..Len(PayloadOf(buf)) : PayloadOf(buf)[i] % 2 = 1) =>
       \/ ~res.block.valid
       \/ /\ res.block.records # << >>
          /\ ~res.block.records[Len(res.block.records)].valid

\* ------------------------------------------------------------------------
\*  Properties of encode
\* ------------------------------------------------------------------------

\* An encode call has returned (or thrown) and its result is in wire.
Encoded == pc \in {"encoded", "reencoded"}

\* The variation encodeRecord encodes rec under.
Selected(cat, rec) ==
    IF rec.uap_variation = "" THEN cat.default_variation ELSE rec.uap_variation

\* rec without the entries keyed by a sentinel id.
WithoutSentinels(rec) ==
    [rec EXCEPT !.items = [id \in (DOMAIN rec.items) \ {"-", "rfs"} |-> rec.items[id]]]

\* C8 as stated: encode fails, returning no bytes, when 3 + the size of the
\* encoded records exceeds 65535, and the LEN field of a block it returns is
\* the number of bytes of the block.
C8_TooLarge ==
    Encoded =>
       IF wire.exc = NoExc
       THEN Len(wire.bytes) <= 65535 /\ LenField(wire.bytes) = Len(wire.bytes)
       ELSE wire.bytes = << >>

\* C9 as stated: the SP item of a record is emitted as the length byte
\* 1 + payload size followed by the payload, and encode fails when the payload
\* is longer than 254 bytes. The record holds the SP item alone, so the block
\* is the header, one FSPEC byte and the item.
C9_SPLength ==
    (pc = "encoded" /\ num \in DOMAIN cats_ /\ Len(recs) = 1
     /\ DOMAIN recs[1].items = {"SP"}
     /\ Selected(cats_[num], recs[1]) \in DOMAIN cats_[num].uap_variations) =>
       IF Len(recs[1].items["SP"].raw_bytes) > 254
       THEN wire.exc # NoExc /\ wire.bytes = << >>
       ELSE /\ wire.exc = NoExc
            /\ wire.bytes[5] = 1 + Len(recs[1].items["SP"].raw_bytes)
            /\ SubSeq(wire.bytes, 6, Len(wire.bytes)) = recs[1].items["SP"].raw_bytes

\* C10: sentinel slots are never encoded. For a list of one record, encode
\* does exactly what it does for the record without its entries keyed "-" and
\* "rfs" (no byte is emitted for them, no failure comes from them), and in the
\* FSPEC of the block the bit of every slot whose UAP id is "-" or "rfs" is 0.
C10_SentinelsNotEncoded ==
    (Encoded /\ num \in DOMAIN cats_ /\ Len(recs) = 1) =>
       /\ wire = encode(cats_, num, <<WithoutSentinels(recs[1])>>)
       /\ wire.exc = NoExc =>
             LET uap   == cats_[num].uap_variations[Selected(cats_[num], recs[1])]
                 fspec == readFspec(SubSeq(wire.bytes, 4, Len(wire.bytes)), 0, << >>).fspec
             IN  \A s \in 1..Len(uap) : uap[s] \in {"-", "rfs"} => ~isPresent(fspec, s)

\* C10 happens: a record with an entry keyed by a sentinel id, next to a
\* real item, was encoded.
C10_Witness ==
    /\ pc = "encoded" /\ num \in DOMAIN cats_ /\ Len(recs) = 1 /\ wire.exc = NoExc
    /\ (DOMAIN recs[1].items) \cap {"-", "rfs"} # {}
    /\ (DOMAIN recs[1].items) \ {"-", "rfs"} # {}

\* ------------------------------------------------------------------------
\*  Round trips
\* ------------------------------------------------------------------------

\* The names of the non-spare elements of elems.
Names(elems) == {elems[i].name : i \in {j \in 1..Len(elems) : ~elems[j].is_spare}}

\* fields gives every non-spare element of elems a value of its bit width.
FitsElems(elems, fields) ==
    /\ DOMAIN fields = Names(elems)
    /\ \A i \in 1..Len(elems) :
          ~elems[i].is_spare => fields[elems[i].name] \in 0..(2 ^ elems[i].bits - 1)

\* The elements of the first k octets of an Extended item.
RECURSIVE OctetElems(_, _)
OctetElems(def, k) ==
    IF k = 0 THEN << >> ELSE OctetElems(def, k - 1) \o def.octets[k].elements

\* val is a value of the item def whose fields fit their declared widths
\* (an Extended item carries the fields of its first k octets, k >= 1).
ItemConformant(def, val) ==
    /\ val.item_id = def.id /\ val.type = def.type
    /\ CASE def.type = "Fixed" -> FitsElems(def.elements, val.fields)
         [] def.type = "Extended" ->
              \E k \in 1..Len(def.octets) : FitsElems(OctetElems(def, k), val.fields)
         [] def.type = "Repetitive" ->
              \A i \in 1..Len(val.repetitions) : val.repetitions[i] \in 0..127
         [] def.type \in {"RepetitiveGroup", "RepetitiveGroupFX"} ->
              \A i \in 1..Len(val.group_repetitions) :
                 FitsElems(def.rep_group_elements, val.group_repetitions[i])
         [] def.type = "SP" ->
              \A i \in 1..Len(val.raw_bytes) : val.raw_bytes[i] \in 0..255
         [] def.type = "Compound" ->
              \A n \in DOMAIN val.compound_sub_fields :
                 \E i \in 1..Len(def.compound_sub_items) :
                    /\ def.compound_sub_items[i].name = n /\ n # "-"
                    /\ FitsElems(def.compound_sub_items[i].elements,
                                 val.compound_sub_fields[n])
         [] OTHER -> FALSE

\* rec is schema-conformant for cat: its items are items of the selected UAP
\* variation and their values fit the declared widths.
Conformant(cat, rec) ==
    /\ Selected(cat, rec) \in DOMAIN cat.uap_variations
    /\ DOMAIN rec.items \subseteq UapIds(cat, Selected(cat, rec))
    /\ \A id \in DOMAIN rec.items : ItemConformant(DefOf(cat, id), rec.items[id])

\* The variation the discriminator item of rec stands for: the default one
\* when cat has no discriminator, rec has no such item, or the value is not
\* mapped.
Discriminated(cat, rec) ==
    IF /\ cat.uap_case.has_value
       /\ cat.uap_case.item_id \in DOMAIN rec.items
       /\ cat.uap_case.field \in DOMAIN rec.items[cat.uap_case.item_id].fields
       /\ rec.items[cat.uap_case.item_id].fields[cat.uap_case.field]
             \in DOMAIN cat.uap_case.value_to_variation
    THEN cat.uap_case.value_to_variation[
             rec.items[cat.uap_case.item_id].fields[cat.uap_case.field]]
    ELSE cat.default_variation

\* What the decoder can give back: the selected variation is the one the
\* discriminator stands for, no Repetitive or RepetitiveGroupFX list is empty,
\* an SP payload has at most 254 bytes and a RepetitiveGroup at most 255 groups.
Decodable(cat, rec) ==
    /\ Selected(cat, rec) = Discriminated(cat, rec)
    /\ \A id \in DOMAIN rec.items :
          /\ rec.items[id].type = "Repetitive" => rec.items[id].repetitions # << >>
          /\ rec.items[id].type = "RepetitiveGroupFX" =>
                rec.items[id].group_repetitions # << >>
          /\ rec.items[id].type = "RepetitiveGroup" =>
                Len(rec.items[id].group_repetitions) <= 255
          /\ rec.items[id].type = "SP" => Len(rec.items[id].raw_bytes) <= 254

\* Item b is item a, except that fields of a whose value is 0 may be missing
\* from an Extended b (the trailing all-zero octets the encoder trims).
SameItem(a, b) ==
    IF a.type = "Extended"
    THEN /\ b = [a EXCEPT !.fields = b.fields]
         /\ DOMAIN b.fields \subseteq DOMAIN a.fields
         /\ \A f \in DOMAIN a.fields :
               IF f \in DOMAIN b.fields THEN b.fields[f] = a.fields[f]
               ELSE a.fields[f] = 0
    ELSE a = b

SameItems(x, y) ==
    DOMAIN x = DOMAIN y /\ \A id \in DOMAIN x : SameItem(x[id], y[id])

\* The block decoded from the bytes of encode(num, <<recs[1]>>) is valid and
\* has one record with the items of recs[1].
RoundTripped ==
    /\ res.exc = NoExc
    /\ res.block.valid
    /\ Len(res.block.records) = 1
    /\ SameItems(recs[1].items, res.block.records[1].items)

Stable(same(_, _)) ==
    /\ res.exc = NoExc
    /\ res.block.valid
    /\ res.block.cat = first.cat
    /\ Len(res.block.records) = Len(first.records)
    /\ \A k \in 1..Len(first.records) :
          /\ res.block.records[k].uap_variation = first.records[k].uap_variation
          /\ DOMAIN res.block.records[k].items = DOMAIN first.records[k].items
          /\ \A id \in DOMAIN first.records[k].items :
                same(first.records[k].items[id], res.block.records[k].items[id])

\* C2 as stated: a buffer that decodes to a valid block B, re-encoded from
\* B.records and decoded again, gives a block structurally equal to B, with
\* the same item maps.
C2_StableAsStated ==
    pc = "redecoded" => Stable(LAMBDA a, b : a = b)

\* C2 as the code has it: encode of the records of a valid decoded block
\* succeeds, and decoding its bytes gives a block structurally equal to B,
\* except that fields of all-zero trailing Extended octets that were on the
\* wire are missing after the re-encode, which trims those octets.
C2_Stable ==
    /\ pc = "reencoded" => wire.exc = NoExc
    /\ pc = "redecoded" => Stable(SameItem)

\* C2 happens: a buffer no encode produced decoded to a valid block with
\* an item in it, and the block was re-encoded and decoded again.
C2_Witness ==
    /\ pc = "redecoded" /\ origin = "raw"
    /\ first.records # << >>
    /\ first.records[1].items # EmptyMap
    /\ res.block.valid

\* ------------------------------------------------------------------------
\*  The FSPEC
\* ------------------------------------------------------------------------

\* The slots set in the presence vector
SetSlots == {k \in 1..Len(present) : present[k]}

\* floor(h/7)+1 for the highest set slot (h counted from 0), 1 when no slot is set
MinimalOctets ==
    IF SetSlots = {} THEN 1
    ELSE ((CHOOSE k \in SetSlots : \A j \in SetSlots : j <= k) - 1) \div 7 + 1

\* C11: the FSPEC built for a presence vector has floor(h/7)+1 octets for the
\* highest set slot h, counted from 0 (one octet when no slot is set); FX is
\* 1 on every octet but the last; slot k (counted from 1) is bit
\* 7-((k-1) mod 7) of octet (k-1)/7 and no other presence bit is set; and the
\* decoder's FSPEC loop followed by its slot test gives back the vector.
C11_FspecMinimal ==
    /\ fspec_pc \in {"built", "read"} =>
          /\ Len(fspec_bytes) = MinimalOctets
          /\ \A i \in 1..Len(fspec_bytes) :
                fspec_bytes[i] % 2 = (IF i < Len(fspec_bytes) THEN 1 ELSE 0)
          /\ \A k \in 1..(7 * Len(fspec_bytes)) :
                (BitAt(fspec_bytes[((k - 1) \div 7) + 1], 7 - ((k - 1) % 7)) = 1)
                  <=> (k \in SetSlots)
    /\ fspec_pc = "read" =>
          /\ fspec_read = fspec_bytes
          /\ \A k \in 1..Len(present) : isPresent(fspec_read, k) <=> present[k]

\* A vector over 15 slots with the first and the last set and unset slots in
\* between has been built into three octets and read back.
C11_Witness ==
    /\ fspec_pc = "read"
    /\ Len(present) = 15 /\ present[1] /\ ~present[8] /\ present[15]
    /\ Len(fspec_read) = 3

\* ------------------------------------------------------------------------
\*  UAP variations and mandatory items of decoded records
\* ------------------------------------------------------------------------

\* The slots of the list uap whose FSPEC bit is set, sentinel slots apart.
PresentSlots(f, uap) ==
    {s \in 1..Len(uap) : isPresent(f, s) /\ ~IsSentinel(uap[s])}

\* The slot of item id in the list uap, 0 when it has none.
SlotOf(uap, id) ==
    IF \E s \in 1..Len(uap) : uap[s] = id
    THEN CHOOSE s \in 1..Len(uap) : uap[s] = id
    ELSE 0

\* The variation the decoded discriminator item of rec maps to, when cat has a
\* discriminator, rec has the item and its field, and the value has an entry
\* that names a variation of cat; the default variation otherwise.
MappedVariation(cat, rec) ==
    IF Discriminated(cat, rec) \in DOMAIN cat.uap_variations
    THEN Discriminated(cat, rec)
    ELSE cat.default_variation

\* The item ids of a record with FSPEC f: the slots up to the discriminator's
\* read in the default list, the slots after it in the list of variation var.
IdsBySlots(cat, f, var) ==
    LET dflt == cat.uap_variations[cat.default_variation]
        d    == IF cat.uap_case.has_value /\ var # cat.default_variation
                THEN SlotOf(dflt, cat.uap_case.item_id)
                ELSE Len(dflt)
    IN  {dflt[s] : s \in {t \in PresentSlots(f, dflt) : t <= d}}
        \cup {cat.uap_variations[var][s] :
                 s \in {t \in PresentSlots(f, cat.uap_variations[var]) : t > d}}

\* C12: UAP case discrimination. In every record of a decoded block the
\* variation is the one the decoded discriminator item maps to, when the
\* category has a discriminator and the value maps to a variation it has,
\* and the slots after the discriminator are read in that variation's list;
\* it is the default variation, and the whole record is read in the default
\* list, when the discriminator item is absent or its value is not mapped.
C12_Discrimination ==
    (Decoded /\ res.exc = NoExc /\ Framed(buf) /\ buf[1] \in DOMAIN cats_) =>
       \A k \in 1..Len(res.block.records) :
          LET cat == cats_[buf[1]]
              rec == res.block.records[k]
              at  == StartOf(buf, cat, k - 1)
              f   == readFspec(SubSeq(PayloadOf(buf), at + 1, Len(PayloadOf(buf))),
                               0, << >>).fspec
          IN  /\ rec.uap_variation = MappedVariation(cat, rec)
              /\ DOMAIN rec.items = IdsBySlots(cat, f, rec.uap_variation)
              /\ \A id \in DOMAIN rec.items : rec.items[id].type = DefOf(cat, id).type

\* C12 happens: a block of two records was decoded under a schema with a
\* discriminator; the first record has the discriminator item with a value
\* mapped to the non-default variation and an item of that variation's list
\* after it, the second has no discriminator item and an item of the default
\* list in the same slot.
C12_Witness ==
    /\ Decoded /\ res.exc = NoExc /\ res.block.valid /\ buf[1] \in DOMAIN cats_
    /\ cats_[buf[1]].uap_case.has_value
    /\ Len(res.block.records) = 2
    /\ res.block.records[1].uap_variation = "track"
    /\ DOMAIN res.block.records[1].items = {"020", "161"}
    /\ res.block.records[2].uap_variation = "plot"
    /\ DOMAIN res.block.records[2].items = {"010", "040"}

\* C12 on a value without an entry: a record whose discriminator item has a
\* value the schema does not map was decoded in the default list.
C12_UnmappedSeen ==
    /\ Decoded /\ res.exc = NoExc /\ res.block.valid /\ buf[1] \in DOMAIN cats_
    /\ cats_[buf[1]].uap_case.has_value
    /\ Len(res.block.records) = 1
    /\ "020" \in DOMAIN res.block.records[1].items
    /\ res.block.records[1].items["020"].fields[cats_[buf[1]].uap_case.field]
          \notin DOMAIN cats_[buf[1]].uap_case.value_to_variation
    /\ "040" \in DOMAIN res.block.records[1].items

\* The Mandatory items of cat that rec does not have
Missing(cat, rec) ==
    {cat.items[i].id : i \in {j \in 1..Len(cat.items) :
                                 /\ cat.items[j].presence = "Mandatory"
                                 /\ cat.items[j].id \notin DOMAIN rec.items}}

\* C13: the mandatory check is advisory. A record of a decoded block is
\* invalid, with an error naming a missing item, exactly when a Mandatory
\* item of the schema is not in its item map, and carries no error otherwise;
\* it still has the items its FSPEC announces; and a payload in which no item
\* codec fails is decoded to its end into a valid block, whatever records are
\* invalid.
C13_MandatoryAdvisory ==
    (Decoded /\ res.exc = NoExc /\ Framed(buf) /\ buf[1] \in DOMAIN cats_) =>
       LET cat == cats_[buf[1]]
           PL  == PayloadOf(buf)
       IN  /\ \A k \in 1..Len(res.block.records) :
                LET rec == res.block.records[k]
                    at  == StartOf(buf, cat, k - 1)
                    f   == readFspec(SubSeq(PL, at + 1, Len(PL)), 0, << >>).fspec
                IN  /\ rec.valid <=> (Missing(cat, rec) = {})
                    /\ IF Missing(cat, rec) = {} THEN rec.error = << >>
                       ELSE \E id \in Missing(cat, rec) :
                               rec.error = <<"Mandatory item ", id, " not present">>
                    /\ DOMAIN rec.items = IdsBySlots(cat, f, rec.uap_variation)
           /\ Failure(buf, cat, 0) = NoExc =>
                 /\ res.block.valid
                 /\ StartOf(buf, cat, Len(res.block.records)) = Len(PL)

\* C13 happens: the first of two records lacks a mandatory item and has
\* another item; it is in the block, invalid and with that item, and the
\* record after it was decoded as well, into a valid block.
C13_Witness ==
    /\ Decoded /\ res.exc = NoExc /\ res.block.valid
    /\ Len(res.block.records) = 2
    /\ ~res.block.records[1].valid
    /\ res.block.records[1].error = <<"Mandatory item ", "010", " not present">>
    /\ DOMAIN res.block.records[1].items # {}
    /\ res.block.records[2].valid

\* ------------------------------------------------------------------------
\*  The registry
\* ------------------------------------------------------------------------

\* The places in the call log where a schema numbered n was registered
RegisteredAt(n) == {i \in 1..Len(reg_log) : reg_log[i].cat = n}

\* C14: registry semantics. After any sequence of registerCategory calls,
\* category(n) returns the schema most recently registered with number n,
\* whatever was registered under other numbers before or after it, and throws
\* "Category n not registered" exactly when no schema numbered n was ever
\* registered.
C14_Registry ==
    got.n # 0 =>
       IF RegisteredAt(got.n) = {}
       THEN got.exc = Throw("runtime_error",
                            <<"Category ", ToString(got.n), " not registered">>)
       ELSE /\ got.exc = NoExc
            /\ got.def = reg_log[CHOOSE i \in RegisteredAt(got.n) :
                                    \A j \in RegisteredAt(got.n) : j <= i]

\* C14 happens: two different schemas numbered 1 were registered, a
\* schema numbered 2 after them, and category(1) returned the second of the
\* two.
C14_Witness ==
    /\ Len(reg_log) = 3
    /\ reg_log[1].cat = 1 /\ reg_log[2].cat = 1 /\ reg_log[1] # reg_log[2]
    /\ reg_log[3].cat = 2
    /\ got.n = 1 /\ got.exc = NoExc /\ got.def = reg_log[2]

\* ------------------------------------------------------------------------
\*  The bit stream
\* ------------------------------------------------------------------------

\* Bit j of a 64-bit word, bit 0 the least significant
WordBit(w, j) == (w[4 - (j \div 16)] \div (2 ^ (j % 16))) % 2

\* The number of bits written before field i
RECURSIVE BitsBefore(_)
BitsBefore(i) == IF i <= 1 THEN 0 ELSE BitsBefore(i - 1) + written[i - 1].n

\* C15: bit-stream round trip. For every n in 1..64, a BitReader over the
\* buffer of a BitWriter that has written p bits and then v with width n,
\* once it has skipped the p bits, reads with readU(n) the low n bits of v
\* and zeros above them, whether p is a multiple of 8 or not.
C15_RoundTrip ==
    (stream_pc = "reading" /\ written # << >> /\ rd.op = "readU") =>
       LET f == written[next_field - 1]
       IN  /\ rd.exc = NoExc
           /\ rd.n = f.n
           /\ rd.pos0 = BitsBefore(next_field - 1)
           /\ \A j \in 0..63 :
                 WordBit(rd.val, j) = (IF j < f.n THEN WordBit(f.value, j) ELSE 0)

\* C15 happens: after 3 bits the value 0xA5A55A5A1234F00F was written
\* with width 64, and a reader that skipped the 3 bits read it back.
C15_Witness ==
    /\ stream_pc = "reading" /\ Len(written) = 2 /\ next_field = 3
    /\ written[1].n = 3
    /\ written[2] = [value |-> <<42405, 23130, 4660, 61455>>, n |-> 64]
    /\ rd.op = "readU" /\ rd.pos0 = 3
    /\ rd.val = <<42405, 23130, 4660, 61455>>

\* C16: BitReader bounds. readU(n) and skip(n) throw invalid_argument when n
\* is 0 or more than 64, out_of_range when n is in 1..64 and fewer than n bits
\* remain, and nothing otherwise; a call that throws leaves the position where
\* it was; and after any sequence of readU, skip, alignToByte and subReader
\* calls the position is between 0 and 8 times the buffer size, in the reader
\* and in a reader that subReader returned.
C16_ReaderBounds ==
    /\ rd.op \in {"readU", "skip"} =>
          rd.exc.type =
             (IF rd.n = 0 \/ rd.n > 64 THEN "invalid_argument"
              ELSE IF 8 * Len(br.buf) - rd.pos0 < rd.n THEN "out_of_range"
              ELSE "")
    /\ rd.exc # NoExc => br.pos = rd.pos0
    /\ 0 <= br.pos /\ br.pos <= 8 * Len(br.buf)
    /\ 0 <= sub.pos /\ sub.pos <= 8 * Len(sub.buf)

\* C16 happens: on a reader with bits left, but fewer than 64, and not
\* at a byte boundary, readU(64) threw out_of_range.
C16_Witness ==
    /\ rd.op = "readU" /\ rd.n = 64 /\ rd.exc.type = "out_of_range"
    /\ br.pos % 8 # 0 /\ br.pos < 8 * Len(br.buf)

\* ------------------------------------------------------------------------
\*  Blocks of several records
\* ------------------------------------------------------------------------

\* The number of payload bytes encodeRecord gives the records before record i
RECURSIVE EncodedBefore(_, _)
EncodedBefore(cat, i) ==
    IF i <= 1 THEN 0
    ELSE EncodedBefore(cat, i - 1) + Len(encodeRecord(recs[i - 1], cat).bytes)

\* The block decoded from the bytes of encode(num, recs) is valid and has the
\* records of recs in their order: as many records, record i with the items
\* of recs[i] and decoded from the byte after the last byte of record i - 1.
InOrder ==
    /\ res.exc = NoExc
    /\ res.block.valid
    /\ Len(res.block.records) = Len(recs)
    /\ \A i \in 1..Len(recs) :
          /\ SameItems(recs[i].items, res.block.records[i].items)
          /\ StartOf(buf, cats_[num], i - 1) = EncodedBefore(cats_[num], i)
          /\ RecordAt(buf, cats_[num], EncodedBefore(cats_[num], i)).rec
                = res.block.records[i]

\* C17 as stated: for any list of k >= 1 schema-conformant records of a
\* registered category, decode(encode(c, recs)) is a valid block of k records,
\* record i with the items of recs[i] and starting at the byte after the last
\* item byte of record i - 1.
C17_OrderAsStated ==
    (pc = "decoded" /\ origin = "wire" /\ num \in DOMAIN cats_ /\ recs # << >>
     /\ \A i \in 1..Len(recs) : Conformant(cats_[num], recs[i])) => InOrder

\* C17 as the code has it: the records come back in their order, each
\* decoded from the byte after the previous one, for a list of k >= 1
\* schema-conformant records that are also decodable (variation the one the
\* discriminator item stands for, no empty Repetitive or RepetitiveGroupFX
\* list, SP payload and RepetitiveGroup count within their length bytes) and
\* whose block has at most 65535 bytes. For such a list encode succeeds.
C17_Order ==
    (num \in DOMAIN cats_ /\ recs # << >>
     /\ (pc = "encoded" \/ (pc = "decoded" /\ origin = "wire"))
     /\ Len(wire.bytes) <= 65535
     /\ \A i \in 1..Len(recs) :
           Conformant(cats_[num], recs[i]) /\ Decodable(cats_[num], recs[i])) =>
       /\ wire.exc = NoExc
       /\ pc = "decoded" => InOrder

\* C17 happens: a list of two different conformant, decodable records
\* went through encode and decode, and the second record was decoded from the
\* byte after the first.
C17_Witness ==
    /\ pc = "decoded" /\ origin = "wire" /\ num \in DOMAIN cats_
    /\ Len(recs) = 2 /\ recs[1] # recs[2]
    /\ \A i \in 1..2 : Conformant(cats_[num], recs[i]) /\ Decodable(cats_[num], recs[i])
    /\ Len(res.block.records) = 2
    /\ StartOf(buf, cats_[num], 1) > 0
    /\ StartOf(buf, cats_[num], 1) < Len(PayloadOf(buf))

\* ------------------------------------------------------------------------
\*  Scenarios
\* ------------------------------------------------------------------------

\* C18: the byte-exact framing scenario. Under the CAT01 schema the block
\* 01 00 07 C0 05 12 10 decodes to a valid block of length 7 with one valid
\* record of variation "plot" that has I010 with SAC = 5, SIC = 18 and I020
\* with TYP = 0, SSRPSR = 1 (and the other bits of its octet 0), and encode of
\* the decoded records under category 1 returns the same 7 bytes.
C18_PlotFrame ==
    (buf = PlotFrame /\ 1 \in DOMAIN cats_ /\ cats_[1] = Cat1) =>
       /\ res.exc = NoExc
       /\ res.block.valid /\ res.block.error = << >>
       /\ res.block.cat = 1 /\ res.block.length = 7
       /\ Len(res.block.records) = 1
       /\ res.block.records[1].valid
       /\ res.block.records[1].uap_variation = "plot"
       /\ DOMAIN res.block.records[1].items = {"010", "020"}
       /\ res.block.records[1].items["010"].fields = [SAC |-> 5, SIC |-> 18]
       /\ res.block.records[1].items["020"].fields =
             [TYP |-> 0, SIM |-> 0, SSRPSR |-> 1, ANT |-> 0, SPI |-> 0, RAB |-> 0]
       /\ pc = "reencoded" => wire = [exc |-> NoExc, bytes |-> PlotFrame]

\* C18 happens: the frame was decoded under the CAT01 schema and its
\* records were encoded again under category 1.
C18_Witness ==
    /\ pc = "reencoded" /\ buf = PlotFrame
    /\ 1 \in DOMAIN cats_ /\ cats_[1] = Cat1
    /\ num = 1 /\ recs = res.block.records
    /\ Len(wire.bytes) = 7

\* C19: a header-only block. A buffer of at least 3 bytes whose LEN field
\* is 3 and whose category is registered decodes to a valid block of that
\* category and length with no record and no error, whatever follows the
\* header in the buffer.
C19_HeaderOnly ==
    (Decoded /\ Len(buf) >= 3 /\ LenField(buf) = 3 /\ buf[1] \in DOMAIN cats_) =>
       /\ res.exc = NoExc
       /\ res.block.valid
       /\ res.block.error = << >>
       /\ res.block.records = << >>
       /\ res.block.cat = buf[1] /\ res.block.length = 3

\* C19 happens: a buffer with LEN = 3 and a byte after the header was
\* decoded with its category registered.
C19_Witness ==
    /\ Decoded /\ Len(buf) = 4 /\ LenField(buf) = 3 /\ buf[1] \in DOMAIN cats_
    /\ res.block.valid

\* ------------------------------------------------------------------------
\*  Calls of several threads on one registry
\* ------------------------------------------------------------------------

\* The call c returned what the same call returns when it runs on its own
\* on the registry c.shared.
AsAlone(c) ==
    IF c.kind = "decode"
    THEN LET Same(alone) == alone.exc = c.exc /\ alone.block = c.block
         IN  Same(decode(c.shared, c.buf))
    ELSE LET Same(alone) == alone.exc = c.exc /\ (alone.exc = NoExc => alone.bytes = c.bytes)
         IN  Same(encode(c.shared, c.num, c.recs))

\* C20: while decode and encode calls of several threads are interleaved
\* in any order on one registry, with no registerCategory during a call,
\* the registry and every schema in it stay as they were when each call
\* began, and each call that has ended returned (or threw) exactly what the
\* same call returns (or throws) when it runs alone on that registry.
C20_Reentrant ==
    \A t \in Threads :
       calls[t].pc # "idle" =>
          /\ cats_ = calls[t].shared
          /\ calls[t].pc = "done" => AsAlone(calls[t])

\* Two calls have ended, a decode that returned two records and an encode
\* that returned a block of two records, and one of them ended while the
\* other was inside its record loop.
C20_Witness ==
    \E t \in Threads, u \in Threads :
       /\ t # u
       /\ calls[t].pc = "done" /\ calls[u].pc = "done"
       /\ calls[t].overlapped \/ calls[u].overlapped
       /\ calls[t].kind = "decode" /\ calls[t].block.valid
       /\ Len(calls[t].block.records) = 2
       /\ calls[u].kind = "encode" /\ calls[u].exc = NoExc
       /\ Len(calls[u].recs) = 2 /\ Len(calls[u].bytes) > 3

\* ------------------------------------------------------------------------
\*  Items on their own
\* ------------------------------------------------------------------------

\* encodeItem has returned bytes for a value of a schema of type ty.
EncodedAs(ty) ==
    /\ item_st.pc \in {"encoded", "decoded"} /\ item_st.from # "raw"
    /\ item_st.def.type = ty
    /\ item_st.enc.exc = NoExc

\* Octet i (1-based) of the schema holds a non-spare field to which the
\* value gives a non-zero value.
OctetInUse(i) ==
    \E k \in 1..Len(item_st.def.octets[i].elements) :
       /\ ~item_st.def.octets[i].elements[k].is_spare
       /\ item_st.def.octets[i].elements[k].name \in DOMAIN item_st.val.fields
       /\ item_st.val.fields[item_st.def.octets[i].elements[k].name] # 0

\* C21: the encoding of an Extended value has as many octets as the 1-based
\* index of the last schema octet that holds a non-spare field with a
\* non-zero value, one octet when there is no such octet; FX (bit 0) is 1 on
\* every octet written but the last, where it is 0.
C21_ExtendedLength ==
    EncodedAs("Extended") =>
       /\ Len(item_st.enc.bytes) \in 1..Len(item_st.def.octets)
       /\ \A i \in 1..Len(item_st.def.octets) :
             i > Len(item_st.enc.bytes) => ~OctetInUse(i)
       /\ Len(item_st.enc.bytes) > 1 => OctetInUse(Len(item_st.enc.bytes))
       /\ \A k \in 1..Len(item_st.enc.bytes) :
             item_st.enc.bytes[k] % 2 = (IF k < Len(item_st.enc.bytes) THEN 1 ELSE 0)

\* A value whose only non-zero field is in the second of three octets, set
\* to zero in the third: two octets are written. And a value of zeros only.
C21_Witness ==
    /\ EncodedAs("Extended") /\ item_st.pc = "encoded"
    /\ Len(item_st.def.octets) = 3
    /\ item_st.val.fields = [A |-> 0, D |-> 1, E |-> 0]
    /\ item_st.enc.bytes = <<1, 32>>

\* decodeItem has returned or thrown for a buffer under a schema of type ty.
DecodedAs(ty) == item_st.pc = "decoded" /\ item_st.def.type = ty

\* The offsets (1-based) of the bytes of the buffer whose bit 0 is 0
FxClear == {i \in 1..Len(item_st.buf) : item_st.buf[i] % 2 = 0}

\* The value of element k of elems in the bits of the window w, the first
\* element in the most significant bits of its first byte
RECURSIVE WindowValue(_)
WindowValue(w) == IF w = << >> THEN 0 ELSE WindowValue(SubSeq(w, 1, Len(w) - 1)) * 256 + w[Len(w)]

ElementIn(w, elems, k) ==
    (WindowValue(w) \div (2 ^ (8 * Len(w) - SumBits(SubSeq(elems, 1, k)))))
       % (2 ^ elems[k].bits)

\* The fields of the elements elems read from the window w
FieldsIn(w, elems) ==
    [nm \in {elems[k].name : k \in {j \in 1..Len(elems) : ~elems[j].is_spare}} |->
       ElementIn(w, elems, CHOOSE k \in 1..Len(elems) : ~elems[k].is_spare /\ elems[k].name = nm)]

\* The fields of the first n octets of the buffer that the schema describes
OctetFields(n) ==
    LET described == 1..Min(n, Len(item_st.def.octets))
        names(i) == DOMAIN FieldsIn(<<item_st.buf[i]>>, item_st.def.octets[i].elements)
    IN  [nm \in UNION {names(i) : i \in described} |->
           LET i == CHOOSE j \in described : nm \in names(j)
           IN  FieldsIn(<<item_st.buf[i]>>, item_st.def.octets[i].elements)[nm]]

\* C22: decodeItem of an Extended item reads octets up to the first whose FX
\* (bit 0) is 0 and reports their number as consumed; the octets the schema
\* describes give their non-spare fields, the octets past the schema give
\* nothing but their FX is honoured; a buffer that ends before an octet
\* with FX = 0 makes the item fail (unexpected end of buffer) with nothing
\* consumed.
C22_ExtendedDecode ==
    DecodedAs("Extended") =>
       IF FxClear = {}
       THEN /\ item_st.dec.exc = Throw("runtime_error",
                  <<"Item ", item_st.def.id, ": unexpected end of buffer in Extended">>)
            /\ item_st.dec.consumed = 0
       ELSE LET n == CHOOSE i \in FxClear : \A j \in FxClear : i <= j
            IN  /\ item_st.dec.exc = NoExc
                /\ item_st.dec.consumed = n
                /\ item_st.dec.item.fields = OctetFields(n)

\* Four octets are read under a schema of two: the third has FX = 1 and is
\* past the schema, the fourth ends the item.
C22_Witness ==
    /\ DecodedAs("Extended") /\ item_st.from = "raw"
    /\ Len(item_st.def.octets) = 2
    /\ item_st.buf = <<129, 3, 255, 2>>
    /\ item_st.dec.exc = NoExc /\ item_st.dec.consumed = 4
    /\ item_st.dec.item.fields["TYP"] = 1 /\ item_st.dec.item.fields["DS1DS2"] = 0

\* The 0-based slots of the schema whose sub-item is not "-" and is in the
\* value handed to encodeItem
SlotsGiven ==
    {i \in 0..(Len(item_st.def.compound_sub_items) - 1) :
       /\ item_st.def.compound_sub_items[i + 1].name # "-"
       /\ item_st.def.compound_sub_items[i + 1].name \in DOMAIN item_st.val.compound_sub_fields}

\* floor(s / 7) + 1 for the highest slot s of S, 1 when S is empty
PsfLength(S) ==
    IF S = {} THEN 1 ELSE ((CHOOSE i \in S : \A j \in S : j <= i) \div 7) + 1

\* The sum of 2^(7 - i mod 7) over the slots i of S in PSF byte k (1-based)
RECURSIVE PsfBits(_, _)
PsfBits(S, k) ==
    IF S = {} THEN 0
    ELSE LET i == CHOOSE j \in S : TRUE
         IN  (IF i \div 7 = k - 1 THEN 2 ^ (7 - (i % 7)) ELSE 0) + PsfBits(S \ {i}, k)

\* The payload bytes of the slots of S below slot i
RECURSIVE PayloadBefore(_, _)
PayloadBefore(S, i) ==
    IF i = 0 THEN 0
    ELSE PayloadBefore(S, i - 1)
         + (IF (i - 1) \in S THEN item_st.def.compound_sub_items[i].fixed_bytes ELSE 0)

\* The window of sub-item slot i in the bytes when the slots of S have a
\* payload after npsf PSF bytes
SubWindow(bytes, npsf, S, i) ==
    SubSeq(bytes, npsf + PayloadBefore(S, i) + 1,
           npsf + PayloadBefore(S, i) + item_st.def.compound_sub_items[i + 1].fixed_bytes)

\* C23: the encoding of a Compound value starts with floor(s/7)+1 PSF bytes,
\* s the highest slot of a sub-item that is present and not "-" (one zero
\* byte and nothing else when none is); slot i sets bit 7-(i mod 7) of PSF
\* byte floor(i/7), no other slot bit is set, FX is 1 on every PSF byte but
\* the last; after the PSF come the payloads of exactly the present
\* sub-items in ascending slot order, each fixed_bytes long and holding
\* the sub-item's fields.
C23_CompoundLayout ==
    EncodedAs("Compound") =>
       LET S    == SlotsGiven
           npsf == PsfLength(S)
           subs == item_st.def.compound_sub_items
       IN  /\ Len(item_st.enc.bytes) = npsf + PayloadBefore(S, Len(subs))
           /\ \A k \in 1..npsf :
                 item_st.enc.bytes[k] = PsfBits(S, k) + (IF k < npsf THEN 1 ELSE 0)
           /\ S = {} => item_st.enc.bytes = <<0>>
           /\ \A i \in S :
                 \A e \in 1..Len(subs[i + 1].elements) :
                    ~subs[i + 1].elements[e].is_spare =>
                       ElementIn(SubWindow(item_st.enc.bytes, npsf, S, i),
                                 subs[i + 1].elements, e)
                       = FieldOrZero(item_st.val.compound_sub_fields[subs[i + 1].name],
                                     subs[i + 1].elements[e].name)
                         % (2 ^ subs[i + 1].elements[e].bits)

\* Sub-items of slot 0 and slot 7 (and an entry named "-") are handed over:
\* two PSF bytes, the first with FX, then the two payloads in slot order.
C23_Witness ==
    /\ EncodedAs("Compound") /\ item_st.pc = "encoded"
    /\ DOMAIN item_st.val.compound_sub_fields = {"TRK", "-", "ADS", "VDL"}
    /\ SlotsGiven = {0, 5, 7}
    /\ item_st.enc.bytes = <<133, 128, 7, 18, 52, 7>>

\* The 0-based slots of the schema whose sub-item is not "-" and whose bit
\* is set in the first npsf bytes of the buffer
SlotsSet(npsf) ==
    {i \in 0..(Len(item_st.def.compound_sub_items) - 1) :
       /\ item_st.def.compound_sub_items[i + 1].name # "-"
       /\ i \div 7 < npsf
       /\ (item_st.buf[(i \div 7) + 1] \div (2 ^ (7 - (i % 7)))) % 2 = 1}

\* The slots of S whose payload ends past the end of the buffer
SlotsCut(npsf, S) ==
    {i \in S : npsf + PayloadBefore(S, i) + item_st.def.compound_sub_items[i + 1].fixed_bytes
               > Len(item_st.buf)}

\* C24: decodeItem of a Compound item reads PSF bytes up to the first with
\* FX = 0, then decodes, in ascending slot order, exactly the sub-items of
\* the schema whose PSF bit is set and whose name is not "-", each from its
\* own fixed_bytes; a PSF bit of a "-" slot or of a slot past the schema
\* takes no byte and adds no entry; consumed is the PSF length plus the
\* fixed_bytes of the decoded sub-items; a buffer that ends inside the PSF
\* or before the end of a sub-item makes the item fail with nothing
\* consumed.
C24_CompoundDecode ==
    DecodedAs("Compound") =>
       IF FxClear = {}
       THEN /\ item_st.dec.exc = Throw("runtime_error",
                  <<"Item ", item_st.def.id, ": truncated Compound PSF">>)
            /\ item_st.dec.consumed = 0
       ELSE LET npsf == CHOOSE i \in FxClear : \A j \in FxClear : i <= j
                S    == SlotsSet(npsf)
                subs == item_st.def.compound_sub_items
                cut  == SlotsCut(npsf, S)
            IN  IF cut # {}
                THEN /\ item_st.dec.exc = Throw("runtime_error",
                           <<"Item ", item_st.def.id, "/",
                             subs[(CHOOSE i \in cut : \A j \in cut : i <= j) + 1].name,
                             ": buffer too short for Compound sub-item">>)
                     /\ item_st.dec.consumed = 0
                ELSE /\ item_st.dec.exc = NoExc
                     /\ item_st.dec.consumed = npsf + PayloadBefore(S, Len(subs))
                     /\ DOMAIN item_st.dec.item.compound_sub_fields
                           = {subs[i + 1].name : i \in S}
                     /\ \A i \in S :
                           item_st.dec.item.compound_sub_fields[subs[i + 1].name]
                           = FieldsIn(SubWindow(item_st.buf, npsf, S, i), subs[i + 1].elements)

\* Three PSF bytes under a schema of eight slots: slot 0 is set in the
\* first, the second has FX only, the third sets a slot past the schema.
\* One sub-item is decoded from the byte after the PSF.
C24_Witness ==
    /\ DecodedAs("Compound") /\ item_st.from = "raw"
    /\ item_st.buf = <<129, 1, 64, 3>>
    /\ item_st.dec.exc = NoExc /\ item_st.dec.consumed = 4
    /\ item_st.dec.item.compound_sub_fields = [TRK |-> [TRK |-> 3]]

\* Only the bit of the "-" slot is set: the PSF byte is all that is taken
\* and the item has no entry.
C24_DashSlotSeen ==
    /\ DecodedAs("Compound") /\ item_st.from = "raw"
    /\ item_st.buf = <<64, 3>>
    /\ item_st.dec.exc = NoExc /\ item_st.dec.consumed = 1
    /\ DOMAIN item_st.dec.item.compound_sub_fields = {}

\* decodeItem was handed the bytes encodeItem returned for a value of a
\* schema of type ty, alone or with bytes of a next item after them.
RoundTripOf(ty) == DecodedAs(ty) /\ item_st.from = "enc"

\* C25: the encoding of a non-empty Repetitive list has one byte per entry
\* and decodes to the same list with every value reduced to its low 7
\* bits, consuming one byte per entry; the encoding of an empty list is the
\* single byte 0x00 and decodes to the list [0]; no decoded Repetitive item
\* has an empty list.
C25_Repetitive ==
    /\ EncodedAs("Repetitive") =>
          Len(item_st.enc.bytes) = (IF item_st.val.repetitions = << >> THEN 1
                                    ELSE Len(item_st.val.repetitions))
    /\ EncodedAs("Repetitive") /\ item_st.val.repetitions = << >> =>
          item_st.enc.bytes = <<0>>
    /\ RoundTripOf("Repetitive") =>
          /\ item_st.dec.exc = NoExc
          /\ item_st.dec.consumed = Len(item_st.enc.bytes)
          /\ item_st.dec.item.repetitions =
                (IF item_st.val.repetitions = << >> THEN <<0>>
                 ELSE [i \in 1..Len(item_st.val.repetitions) |->
                          item_st.val.repetitions[i] % 128])
    /\ DecodedAs("Repetitive") /\ item_st.dec.exc = NoExc =>
          Len(item_st.dec.item.repetitions) >= 1

\* A list of three values, two of them wider than 7 bits, is encoded and
\* decoded from a buffer that goes on after the item.
C25_Witness ==
    /\ RoundTripOf("Repetitive")
    /\ item_st.val.repetitions = <<128, 300, 1>>
    /\ item_st.buf = <<1, 89, 2, 255>>
    /\ item_st.dec.item.repetitions = <<0, 44, 1>>
    /\ item_st.dec.consumed = 3

\* An empty list is encoded and decoded.
C25_EmptySeen ==
    /\ RoundTripOf("Repetitive")
    /\ item_st.val.repetitions = << >>
    /\ item_st.dec.item.repetitions = <<0>>

\* C26: decodeItem of a RepetitiveGroup item whose first byte is N decodes
\* exactly N groups of rep_group_bits / 8 bytes each, in wire order, and
\* consumes 1 + N * group_bytes bytes; N = 0 gives no group and consumes
\* one byte; with fewer than 1 + N * group_bytes bytes in the buffer (an
\* empty buffer included) the item fails, no group is returned and
\* nothing is consumed.
C26_GroupDecode ==
    DecodedAs("RepetitiveGroup") =>
       LET group_bytes == item_st.def.rep_group_bits \div 8
           N           == item_st.buf[1]
       IN  IF item_st.buf = << >>
           THEN /\ item_st.dec.exc = Throw("runtime_error",
                      <<"Item ", item_st.def.id, ": buffer too short for RepetitiveGroup">>)
                /\ item_st.dec.consumed = 0
                /\ item_st.dec.item.group_repetitions = << >>
           ELSE IF Len(item_st.buf) < 1 + N * group_bytes
           THEN /\ item_st.dec.exc = Throw("runtime_error",
                      <<"Item ", item_st.def.id, ": buffer too short for RepetitiveGroup data">>)
                /\ item_st.dec.consumed = 0
                /\ item_st.dec.item.group_repetitions = << >>
           ELSE /\ item_st.dec.exc = NoExc
                /\ item_st.dec.consumed = 1 + N * group_bytes
                /\ Len(item_st.dec.item.group_repetitions) = N
                /\ \A i \in 1..N :
                      item_st.dec.item.group_repetitions[i]
                      = FieldsIn(SubSeq(item_st.buf, 2 + (i - 1) * group_bytes,
                                        1 + i * group_bytes),
                                 item_st.def.rep_group_elements)

\* A count of 2 with two one-byte groups and a byte after them.
C26_Witness ==
    /\ DecodedAs("RepetitiveGroup") /\ item_st.from = "raw"
    /\ item_st.buf = <<2, 255, 64, 3>>
    /\ item_st.dec.exc = NoExc /\ item_st.dec.consumed = 3
    /\ item_st.dec.item.group_repetitions = <<[A |-> 7, B |-> 15], [A |-> 2, B |-> 0]>>

\* A count of 0 before other bytes: no group, one byte consumed.
C26_ZeroSeen ==
    /\ DecodedAs("RepetitiveGroup") /\ item_st.from = "raw"
    /\ item_st.buf = <<0, 255>>
    /\ item_st.dec.exc = NoExc /\ item_st.dec.consumed = 1
    /\ item_st.dec.item.group_repetitions = << >>

\* A count of 2 with one two-byte group and a half: the item fails.
C26_ShortSeen ==
    /\ DecodedAs("RepetitiveGroup") /\ item_st.from = "raw"
    /\ item_st.def.rep_group_bits = 16
    /\ item_st.buf = <<2, 255, 64, 3>>
    /\ item_st.dec.exc # NoExc

\* The group as it is on the wire: for every non-spare element of elems the
\* low bits of the value grp gives it, 0 when grp gives it none
OnWire(grp, elems) ==
    [nm \in {elems[k].name : k \in {j \in 1..Len(elems) : ~elems[j].is_spare}} |->
       FieldOrZero(grp, nm)
          % (2 ^ elems[CHOOSE k \in 1..Len(elems) : ~elems[k].is_spare /\ elems[k].name = nm].bits)]

\* The groups of the buffer (1-based) that are whole and have FX = 0
GroupsEnding(group_bytes) ==
    {i \in 1..(Len(item_st.buf) \div group_bytes) : item_st.buf[i * group_bytes] % 2 = 0}

\* C27 as stated: the decode of an encoded non-empty RepetitiveGroupFX list
\* returns the same groups.
C27_SameGroupsAsStated ==
    RoundTripOf("RepetitiveGroupFX") /\ item_st.val.group_repetitions # << >> =>
       /\ item_st.dec.exc = NoExc
       /\ item_st.dec.item.group_repetitions = item_st.val.group_repetitions

\* C27: the encoding of a non-empty RepetitiveGroupFX list of k groups is k
\* groups of (rep_group_bits + 1) / 8 bytes, the last bit of each being FX,
\* 1 on all but the last group; its decode returns k groups in order and
\* consumes k * group_bytes bytes, group i holding for every non-spare
\* element the low bits of the value the i-th group gives it, 0 when it
\* gives none (the same groups when every group gives every element a
\* value that fits); the encoding of an empty list is one group of zeros
\* with FX = 0; decodeItem fails, with nothing consumed, when the buffer
\* ends before the end of the first group or of a group that the FX of the
\* group before it announced, and else returns the groups up to the first
\* with FX = 0.
C27_GroupFX ==
    LET group_bytes == (item_st.def.rep_group_bits + 1) \div 8
        elems       == item_st.def.rep_group_elements
        k           == Len(item_st.val.group_repetitions)
        n           == IF k = 0 THEN 1 ELSE k
        ends        == GroupsEnding(group_bytes)
    IN  /\ EncodedAs("RepetitiveGroupFX") =>
              /\ Len(item_st.enc.bytes) = n * group_bytes
              /\ \A i \in 1..n :
                    item_st.enc.bytes[i * group_bytes] % 2 = (IF i < n THEN 1 ELSE 0)
              /\ k = 0 => item_st.enc.bytes = [j \in 1..group_bytes |-> 0]
        /\ RoundTripOf("RepetitiveGroupFX") =>
              /\ item_st.dec.exc = NoExc
              /\ item_st.dec.consumed = n * group_bytes
              /\ Len(item_st.dec.item.group_repetitions) = n
              /\ \A i \in 1..n :
                    item_st.dec.item.group_repetitions[i]
                    = OnWire(IF k = 0 THEN EmptyMap ELSE item_st.val.group_repetitions[i], elems)
              /\ (k > 0 /\ \A i \in 1..k : item_st.val.group_repetitions[i]
                                            = OnWire(item_st.val.group_repetitions[i], elems))
                 => item_st.dec.item.group_repetitions = item_st.val.group_repetitions
        /\ DecodedAs("RepetitiveGroupFX") =>
              IF ends = {}
              THEN /\ item_st.dec.exc = Throw("runtime_error",
                         <<"Item ", item_st.def.id, ": buffer too short in RepetitiveGroupFX">>)
                   /\ item_st.dec.consumed = 0
              ELSE LET m == CHOOSE i \in ends : \A j \in ends : i <= j
                   IN  /\ item_st.dec.exc = NoExc
                       /\ item_st.dec.consumed = m * group_bytes
                       /\ Len(item_st.dec.item.group_repetitions) = m
                       /\ \A i \in 1..m :
                             item_st.dec.item.group_repetitions[i]
                             = FieldsIn(SubSeq(item_st.buf, (i - 1) * group_bytes + 1,
                                               i * group_bytes), elems)

\* Two groups that fit their elements are encoded and decoded from a buffer
\* that goes on after the item.
C27_Witness ==
    /\ RoundTripOf("RepetitiveGroupFX")
    /\ item_st.val.group_repetitions = <<[IDENT |-> 3, TRACK |-> 300],
                                         [IDENT |-> 0, TRACK |-> 32767]>>
    /\ item_st.buf = <<3, 2, 89, 0, 255, 254, 255>>
    /\ item_st.dec.item.group_repetitions = item_st.val.group_repetitions
    /\ item_st.dec.consumed = 6

\* The encoding of two groups, cut inside the second: the item fails.
C27_CutSeen ==
    /\ DecodedAs("RepetitiveGroupFX") /\ item_st.from = "cut"
    /\ Len(item_st.val.group_repetitions) = 2 /\ Len(item_st.buf) = 5
    /\ item_st.dec.exc # NoExc

\* C28: decodeItem of an Explicit (SP) item whose first byte is L succeeds
\* exactly when 1 <= L <= the bytes in the buffer; the payload is then the
\* L - 1 bytes after the length byte and L bytes are consumed; with L = 0,
\* an empty buffer or L above the bytes in the buffer the item fails and
\* nothing is consumed.
C28_ExplicitDecode ==
    DecodedAs("SP") =>
       IF item_st.buf = << >>
       THEN /\ item_st.dec.exc = Throw("runtime_error",
                  <<"Item ", item_st.def.id, ": empty buffer for Explicit">>)
            /\ item_st.dec.consumed = 0
       ELSE IF item_st.buf[1] < 1 \/ item_st.buf[1] > Len(item_st.buf)
       THEN /\ item_st.dec.exc = Throw("runtime_error",
                  <<"Item ", item_st.def.id, ": Explicit length out of range">>)
            /\ item_st.dec.consumed = 0
       ELSE /\ item_st.dec.exc = NoExc
            /\ item_st.dec.consumed = item_st.buf[1]
            /\ Len(item_st.dec.item.raw_bytes) = item_st.buf[1] - 1
            /\ \A i \in 1..(item_st.buf[1] - 1) :
                  item_st.dec.item.raw_bytes[i] = item_st.buf[i + 1]

\* A length of 3 in a buffer of 4 bytes: two payload bytes, three consumed.
C28_Witness ==
    /\ DecodedAs("SP") /\ item_st.from = "raw"
    /\ item_st.buf = <<3, 129, 255, 0>>
    /\ item_st.dec.exc = NoExc /\ item_st.dec.consumed = 3
    /\ item_st.dec.item.raw_bytes = <<129, 255>>

\* A length of 0, and a length of 3 in a buffer of 2 bytes: the item fails.
C28_ZeroSeen ==
    /\ DecodedAs("SP") /\ item_st.buf = <<0, 1>> /\ item_st.dec.exc # NoExc

C28_ShortSeen ==
    /\ DecodedAs("SP") /\ item_st.buf = <<3, 1>> /\ item_st.dec.exc # NoExc

\* ------------------------------------------------------------------------
\*  Progress of the record loop of decode
\* ------------------------------------------------------------------------

\* The decode call of the one thread is in its record loop or has left it.
InLoop == calls[1].kind = "decode" /\ calls[1].pc \in {"looping", "done"}

\* The infinite loop guard has never ended a decode, and a decode that has
\* run bodies of its record loop has run at most LEN - 3 of them, LEN the
\* length of its header, the cursor within the LEN - 3 bytes of the payload.
LoopBounded ==
    InLoop =>
       /\ calls[1].block.error # <<"Infinite loop guard: no bytes consumed decoding record">>
       /\ calls[1].turns > 0 => /\ calls[1].turns <= calls[1].block.length - 3
                                /\ calls[1].pos <= calls[1].block.length - 3

\* A body of the record loop that pushed a record moved the cursor forward.
CursorAdvances ==
    (/\ calls[1].kind = "decode" /\ calls[1].pc = "looping"
     /\ Len(calls'[1].block.records) > Len(calls[1].block.records))
    => calls'[1].pos > calls[1].pos

\* C29: in decode, every decodeRecord that returns without throwing has
\* consumed at least one byte: the infinite loop guard never ends a decode,
\* the cursor of the record loop moves forward with every record, the loop
\* runs at most LEN - 3 bodies, and every decode call returns, whatever the
\* buffer.
C29_Terminates ==
    /\ []LoopBounded
    /\ [][CursorAdvances]_vars
    /\ (calls[1].pc = "called") ~> (calls[1].pc = "done")

\* A decode has returned a block of two records after two bodies of its
\* record loop, the cursor at the end of the payload.
C29_Witness ==
    /\ InLoop /\ calls[1].pc = "done"
    /\ calls[1].block.valid /\ Len(calls[1].block.records) = 2
    /\ calls[1].turns = 2 /\ calls[1].pos = calls[1].block.length - 3

\* ------------------------------------------------------------------------
\*  The declared length bounds what decode reads
\* ------------------------------------------------------------------------

\* The first n bytes of b, all of b when it has fewer
FirstBytes(b, n) == SubSeq(b, 1, IF n < Len(b) THEN n ELSE Len(b))

\* The decode call of caller t has returned, its buffer holds a header
Returned(t) ==
    calls[t].kind = "decode" /\ calls[t].pc = "done" /\ Len(calls[t].buf) >= 3

\* The decodes of the two callers ran on one registry, and their buffers agree
\* on their first n bytes.
AgreeOn(n) ==
    /\ Returned(1) /\ Returned(2) /\ calls[1].shared = calls[2].shared
    /\ FirstBytes(calls[1].buf, n) = FirstBytes(calls[2].buf, n)

====
